---------------------------- MODULE Spec2Model ----------------------------
(***************************************************************************)
(* Incremental multi-index engine of the IDE assistant core:               *)
(*   core/indexing/refreshIndex.ts      catalog, planner, global cache      *)
(*   core/indexing/CodebaseIndexer.ts   orchestrator (refreshDirs/Files)    *)
(*   core/indexing/FullTextSearchCodebaseIndex.ts  full-text artifact       *)
(*                                                                         *)
(* One workspace directory is indexed.  Paths and file contents are small  *)
(* integers; a cache key is the digest of a content.  Time is a logical    *)
(* millisecond clock read by Date.now() and stamped on files by writes.    *)
(* Tables are sets of rows: the autoincrement ids are left out, the unique *)
(* indexes are kept by the REPLACE / DELETE operators below.               *)
(***************************************************************************)
EXTENDS Integers, Sequences, FiniteSets, TLC

\* ---------------------------------------------------------------- bounds
NumPaths == 3
NumContents == 2
NumBranches == 2
MaxClock == 3
MaxWrites == 3
NumReplanPaths == 2
MaxReplanWrites == 5
MaxAborts == 1
NumDirs == 2
MaxRuns == 3
MaxRequests == 3
MaxDelay == 2
MaxTime == 6
MaxGets == 2
MaxPrefixLen == 2
MaxChunkLen == 1
MaxChunks == 2
MaxLines == 3
MaxCuts == 1
NumCompletionIds == 3
MaxTicks == 4
MaxStreamLen == 4
MaxFileLen == 5
MaxControllers == 4
MaxDoubleLines == 5
MaxFullPrefixLen == 4
NumConsumers == 3
MaxValues == 2
MaxMessages == 3
MaxProgressFiles == 4
MaxModifyClock == 3
MaxModifications == 2
MaxComputeOps == 3
MaxOtherOps == 1

Paths == 1..NumPaths
Contents == 1..NumContents
Branches == 1..NumBranches
Directory == "ws"

\* CodebaseIndexer.filesPerBatch, scaled down from 500 so that a plan over
\* NumPaths files is cut into more than one batch.
filesPerBatch == 2

\* getIndexesToBuild: the chunk artifact first, then the full-text artifact
\* (LanceDbIndex.create returned undefined: no vector artifact; the code
\* snippets artifact, one more index of the same loop, is left out).
IndexesToBuild == <<"chunks", "sqliteFts">>

\* ------------------------------------------------------------- workspace
NoFile == [content |-> 0, lastModified |-> 0]
Exists(f) == f.content # 0

\* crypto sha256 digest of the file contents: injective on contents.
calculateHash(fileContents) == <<"sha256", fileContents>>

\* ide.getFileStats(paths): one entry per path that exists.
getFileStats(fs, paths) ==
    [p \in {q \in paths : Exists(fs[q])} |-> [lastModified |-> fs[p].lastModified]]

\* walkDirAsync: the files of the directory, in path order.
RECURSIVE SeqOfPaths(_)
SeqOfPaths(S) ==
    IF S = {} THEN <<>>
    ELSE LET m == CHOOSE x \in S : \A y \in S : x <= y
         IN <<m>> \o SeqOfPaths(S \ {m})
walkDir(fs) == SeqOfPaths({p \in Paths : Exists(fs[p])})

Range(s) == {s[j] : j \in 1..Len(s)}

\* ------------------------------------------------------------ the catalog
IndexTag(b, a) == [directory |-> Directory, branch |-> b, artifactId |-> a]

CatalogRow(tag, path, cacheKey, lastUpdated) ==
    [dir |-> tag.directory, branch |-> tag.branch, artifactId |-> tag.artifactId,
     path |-> path, cacheKey |-> cacheKey, lastUpdated |-> lastUpdated]

CacheRow(tag, cacheKey) ==
    [cacheKey |-> cacheKey, dir |-> tag.directory, branch |-> tag.branch,
     artifactId |-> tag.artifactId]

RowOfTag(r, tag) ==
    r.dir = tag.directory /\ r.branch = tag.branch /\ r.artifactId = tag.artifactId

\* SELECT path, cacheKey, lastUpdated FROM tag_catalog WHERE dir, branch, artifactId
getSavedItemsForTag(cat, tag) == {r \in cat : RowOfTag(r, tag)}

\* SELECT dir, branch, artifactId FROM global_cache WHERE cacheKey AND artifactId
getTagsFromGlobalCache(gc, cacheKey, artifactId) ==
    {r \in gc : r.cacheKey = cacheKey /\ r.artifactId = artifactId}

Item(path, cacheKey) == [path |-> path, cacheKey |-> cacheKey]

ItemLess(x, y) ==
    \/ x.path < y.path
    \/ x.path = y.path /\ x.cacheKey[2] < y.cacheKey[2]

RECURSIVE SeqOfItems(_)
SeqOfItems(S) ==
    IF S = {} THEN <<>>
    ELSE LET m == CHOOSE x \in S : \A y \in S \ {x} : ItemLess(x, y)
         IN <<m>> \o SeqOfItems(S \ {m})

\* ------------------------------------------------------------ the planner
\* The row of a path with the greatest lastUpdated (group.latest).
LatestOf(rows) ==
    CHOOSE r \in rows : \A o \in rows : o.lastUpdated <= r.lastUpdated

\* The planner that lists no old version for a file whose contents did not
\* change: the versions other than the latest stay in the catalog.
getAddRemoveForTagKeepsStale(cat, tag, currentFiles, fs) ==
    LET saved == getSavedItemsForTag(cat, tag)
        savedPaths == {r.path : r \in saved}
        group(p) == {r \in saved : r.path = p}
        allVersions(p) == {Item(p, r.cacheKey) : r \in group(p)}
        latest(p) == LatestOf(group(p))
        gone == {p \in savedPaths : p \notin DOMAIN currentFiles}
        changed == {p \in savedPaths \ gone :
                       latest(p).lastUpdated < currentFiles[p].lastModified}
        newHash(p) == calculateHash(fs[p].content)
        newVersion == {p \in changed : latest(p).cacheKey # newHash(p)}
        sameVersion == changed \ newVersion
        remove == UNION {allVersions(p) : p \in gone}
        updateNewVersion == {Item(p, newHash(p)) : p \in newVersion}
        updateOldVersion == UNION {allVersions(p) : p \in newVersion}
        updateLastUpdated == {Item(p, latest(p).cacheKey) : p \in sameVersion}
        add == {Item(p, newHash(p)) : p \in (DOMAIN currentFiles) \ savedPaths}
    IN [add |-> SeqOfItems(add) \o SeqOfItems(updateNewVersion),
        remove |-> SeqOfItems(remove) \o SeqOfItems(updateOldVersion),
        lastUpdated |-> SeqOfItems(updateLastUpdated)]

\* getAddRemoveForTag(tag, currentFiles, readFile): the lists
\* [add ++ updateNewVersion, remove ++ updateOldVersion, updateLastUpdated].
\* currentFiles is the FileStats snapshot, fs the workspace readFile reads.
getAddRemoveForTag(cat, tag, currentFiles, fs) ==
    LET saved == getSavedItemsForTag(cat, tag)
        savedPaths == {r.path : r \in saved}
        group(p) == {r \in saved : r.path = p}
        allVersions(p) == {Item(p, r.cacheKey) : r \in group(p)}
        latest(p) == LatestOf(group(p))
        gone == {p \in savedPaths : p \notin DOMAIN currentFiles}
        changed == {p \in savedPaths \ gone :
                       latest(p).lastUpdated < currentFiles[p].lastModified}
        newHash(p) == calculateHash(fs[p].content)
        newVersion == {p \in changed : latest(p).cacheKey # newHash(p)}
        sameVersion == changed \ newVersion
        remove == UNION {allVersions(p) : p \in gone}
        updateNewVersion == {Item(p, newHash(p)) : p \in newVersion}
        updateOldVersion ==
            UNION ({allVersions(p) : p \in newVersion}
                   \cup {allVersions(p) \ {Item(p, latest(p).cacheKey)} :
                            p \in sameVersion})
        updateLastUpdated == {Item(p, latest(p).cacheKey) : p \in sameVersion}
        add == {Item(p, newHash(p)) : p \in (DOMAIN currentFiles) \ savedPaths}
    IN [add |-> SeqOfItems(add) \o SeqOfItems(updateNewVersion),
        remove |-> SeqOfItems(remove) \o SeqOfItems(updateOldVersion),
        lastUpdated |-> SeqOfItems(updateLastUpdated)]

\* existingTags.length > 0 ? addTag : compute
ClassifyAdd(gc, tag, item) ==
    IF Cardinality(getTagsFromGlobalCache(gc, item.cacheKey, tag.artifactId)) > 0
    THEN "addTag" ELSE "compute"

\* existingTags.length > 1 ? removeTag : del
ClassifyRemove(gc, tag, item) ==
    IF Cardinality(getTagsFromGlobalCache(gc, item.cacheKey, tag.artifactId)) > 1
    THEN "removeTag" ELSE "del"

\* getComputeDeleteAddRemove: the plan [compute, del, addTag, removeTag] and
\* the lastUpdated list.
getComputeDeleteAddRemove(cat, gc, tag, currentFiles, fs) ==
    LET ar == getAddRemoveForTag(cat, tag, currentFiles, fs)
        isCompute(it) == ClassifyAdd(gc, tag, it) = "compute"
        isAddTag(it) == ClassifyAdd(gc, tag, it) = "addTag"
        isDel(it) == ClassifyRemove(gc, tag, it) = "del"
        isRemoveTag(it) == ClassifyRemove(gc, tag, it) = "removeTag"
    IN [compute |-> SelectSeq(ar.add, isCompute),
        del |-> SelectSeq(ar.remove, isDel),
        addTag |-> SelectSeq(ar.add, isAddTag),
        removeTag |-> SelectSeq(ar.remove, isRemoveTag),
        lastUpdated |-> ar.lastUpdated]

EmptyResults ==
    [compute |-> <<>>, del |-> <<>>, addTag |-> <<>>, removeTag |-> <<>>,
     lastUpdated |-> <<>>]

\* totalIndexOps(results)
totalIndexOps(results) ==
    Len(results.compute) + Len(results.del) + Len(results.addTag)
        + Len(results.removeTag)

\* ---------------------------------------------------- completion callback
\* mapIndexResultTypeToAddRemoveResultType: the callback's result type as
\* markComplete's; any other value throws.
mapIndexResultTypeToAddRemoveResultType(resultType) ==
    CASE resultType = "updateLastUpdated" -> "updateLastUpdated"
      [] resultType = "compute" -> "compute"
      [] resultType = "addTag" -> "add"
      [] resultType \in {"del", "removeTag"} -> "remove"
      [] OTHER -> "Unexpected result type"

\* markComplete([item], resultType) on the tag catalog; T is the planner's
\* newLastUpdatedTimestamp.
\*   Compute, Add:      REPLACE INTO tag_catalog (unique on tag, path, cacheKey)
\*   Remove:            DELETE the row (tag, path, cacheKey)
\*   UpdateLastUpdated, UpdateNewVersion:
\*                      UPDATE SET cacheKey, lastUpdated WHERE tag, path
\*   UpdateOldVersion:  nothing
\* A result type the mapping throws on leaves the table as it is.
markComplete(cat, tag, T, item, resultType) ==
    LET addRemoveResultType == mapIndexResultTypeToAddRemoveResultType(resultType)
        same == {r \in cat : RowOfTag(r, tag) /\ r.path = item.path
                              /\ r.cacheKey = item.cacheKey}
        ofPath == {r \in cat : RowOfTag(r, tag) /\ r.path = item.path}
    IN CASE addRemoveResultType \in {"compute", "add"} ->
              (cat \ same) \cup {CatalogRow(tag, item.path, item.cacheKey, T)}
         [] addRemoveResultType = "remove" -> cat \ same
         [] addRemoveResultType \in {"updateLastUpdated", "updateNewVersion"} ->
              IF ofPath = {} THEN cat
              ELSE (cat \ ofPath) \cup {CatalogRow(tag, item.path, item.cacheKey, T)}
         [] OTHER -> cat

\* The UPDATE of updateLastUpdated rewrites every row of (tag, path) to one
\* cacheKey: with two rows it breaks idx_tag_catalog_unique (SQLITE_CONSTRAINT).
UpdateViolatesUnique(cat, tag, item) ==
    Cardinality({r \in cat : RowOfTag(r, tag) /\ r.path = item.path}) > 1

\* markComplete throws: the mapping of the result type does, or the UPDATE
\* breaks the unique index.
markCompleteThrows(cat, tag, item, resultType) ==
    LET addRemoveResultType == mapIndexResultTypeToAddRemoveResultType(resultType)
    IN \/ addRemoveResultType = "Unexpected result type"
       \/ /\ addRemoveResultType \in {"updateLastUpdated", "updateNewVersion"}
          /\ UpdateViolatesUnique(cat, tag, item)

\* The global cache update that takes the items of every result type as added.
globalCacheUpdateAddsAlways(gc, tag, item, resultType) ==
    CASE resultType \in {"del", "removeTag"} -> gc \ {CacheRow(tag, item.cacheKey)}
      [] OTHER -> gc \cup {CacheRow(tag, item.cacheKey)}

\* GlobalCacheCodeBaseIndex.update driven by the callback with
\* results[resultType] = [item]: computeOrAddTag / deleteOrRemoveTag.
globalCacheUpdate(gc, tag, item, resultType) ==
    CASE resultType \in {"compute", "addTag"} -> gc \cup {CacheRow(tag, item.cacheKey)}
      [] resultType \in {"del", "removeTag"} -> gc \ {CacheRow(tag, item.cacheKey)}
      [] OTHER -> gc

\* ------------------------------------------------------ artifact indexes
\* The database as one value: the two catalog tables and the artifact tables
\* (chunks of the chunk artifact, fts / fts_metadata of the full-text one),
\* each artifact table as the set of (path, cacheKey) it holds rows for.
Db(cat, gc, ch, fts) ==
    [tag_catalog |-> cat, global_cache |-> gc, chunks |-> ch, fts_metadata |-> fts]

\* The chunk artifact's writes for one item: compute stores the chunks of
\* (path, cacheKey), del deletes them, addTag / removeTag write no chunk.
chunkIndexWrite(db, item, resultType) ==
    CASE resultType = "compute" -> [db EXCEPT !.chunks = @ \cup {item}]
      [] resultType = "del" -> [db EXCEPT !.chunks = @ \ {item}]
      [] OTHER -> db

\* FullTextSearchCodebaseIndex.update, the writes for one item: compute
\* inserts an fts row per chunk found for (path, cacheKey); del deletes the
\* rows of (path, cacheKey); addTag / removeTag write nothing.
ftsIndexWrite(db, item, resultType) ==
    CASE resultType = "compute" ->
           IF item \in db.chunks
           THEN [db EXCEPT !.fts_metadata = @ \cup {item}] ELSE db
      [] resultType = "del" -> [db EXCEPT !.fts_metadata = @ \ {item}]
      [] OTHER -> db

indexWrite(db, artifactId, item, resultType) ==
    IF artifactId = "chunks" THEN chunkIndexWrite(db, item, resultType)
    ELSE ftsIndexWrite(db, item, resultType)

\* The callback returned by getComputeDeleteAddRemove: markComplete, then the
\* global cache update; nothing is written when markComplete throws.
complete(db, tag, T, item, resultType) ==
    IF markCompleteThrows(db.tag_catalog, tag, item, resultType) THEN db
    ELSE [db EXCEPT !.tag_catalog = markComplete(@, tag, T, item, resultType),
                    !.global_cache = globalCacheUpdate(@, tag, item, resultType)]

\* One item of an update: the artifact's writes, then the callback.
indexItem(db, tag, T, item, resultType) ==
    complete(indexWrite(db, tag.artifactId, item, resultType), tag, T, item, resultType)

RECURSIVE indexItems(_, _, _, _, _)
indexItems(db, tag, T, items, resultType) ==
    IF items = <<>> THEN db
    ELSE indexItems(indexItem(db, tag, T, Head(items), resultType),
                    tag, T, Tail(items), resultType)

\* update(tag, results, markComplete) run to its end: compute, addTag,
\* removeTag, del, in this order.
update(db, tag, T, results) ==
    LET d1 == indexItems(db, tag, T, results.compute, "compute")
        d2 == indexItems(d1, tag, T, results.addTag, "addTag")
        d3 == indexItems(d2, tag, T, results.removeTag, "removeTag")
    IN indexItems(d3, tag, T, results.del, "del")

\* markComplete(lastUpdated, UpdateLastUpdated): item after item; the UPDATE
\* that breaks the unique index throws and leaves the table as it is.
RECURSIVE touchLastUpdated(_, _, _, _)
touchLastUpdated(db, tag, T, items) ==
    IF items = <<>> THEN [db |-> db, ok |-> TRUE]
    ELSE IF UpdateViolatesUnique(db.tag_catalog, tag, Head(items))
         THEN [db |-> db, ok |-> FALSE]
         ELSE touchLastUpdated(complete(db, tag, T, Head(items), "updateLastUpdated"),
                               tag, T, Tail(items))

\* singleFileIndexOps without its filter: the plan over the stats of one file,
\* as the planner made it.
singleFileIndexOpsUnfiltered(results, filePath) == results

\* singleFileIndexOps(results, lastUpdated, filePath)
singleFileIndexOps(results, filePath) ==
    LET filterFn(item) == item.path = filePath
    IN [compute |-> SelectSeq(results.compute, filterFn),
        del |-> SelectSeq(results.del, filterFn),
        addTag |-> SelectSeq(results.addTag, filterFn),
        removeTag |-> SelectSeq(results.removeTag, filterFn),
        lastUpdated |-> SelectSeq(results.lastUpdated, filterFn)]

\* Object.keys(stats)[0]: the path of the only entry, undefined (0) when the
\* file is not in the stats.
FirstKey(st) == IF DOMAIN st = {} THEN 0 ELSE CHOOSE p \in DOMAIN st : TRUE

\* refreshFile(file, workspaceDirs) past the pause check: index after index,
\* plan over the stats of this one file, filter the plan to it, skip the index
\* when nothing is left, else run its update to the end.
RECURSIVE refreshFileFrom(_, _, _, _, _, _)
refreshFileFrom(db, n, file, fs, b, now) ==
    IF n > Len(IndexesToBuild) THEN db
    ELSE LET tag == IndexTag(b, IndexesToBuild[n])
             st == getFileStats(fs, {file})
             filePath == FirstKey(st)
             full == getComputeDeleteAddRemove(db.tag_catalog, db.global_cache,
                                               tag, st, fs)
             res == singleFileIndexOps(full, filePath)
             next == IF totalIndexOps(res) + Len(res.lastUpdated) = 0 THEN db
                     ELSE update(db, tag, now, res)
         IN refreshFileFrom(next, n + 1, file, fs, b, now)

refreshFile(db, file, fs, b, now) == refreshFileFrom(db, 1, file, fs, b, now)

\* The artifacts whose update() refreshFile calls, from index n on: those the
\* loop does not leave with continue.
RECURSIVE updateCalls(_, _, _, _, _, _)
updateCalls(db, n, file, fs, b, now) ==
    IF n > Len(IndexesToBuild) THEN {}
    ELSE LET tag == IndexTag(b, IndexesToBuild[n])
             st == getFileStats(fs, {file})
             filePath == FirstKey(st)
             full == getComputeDeleteAddRemove(db.tag_catalog, db.global_cache,
                                               tag, st, fs)
             res == singleFileIndexOps(full, filePath)
             skip == totalIndexOps(res) + Len(res.lastUpdated) = 0
             next == IF skip THEN db ELSE update(db, tag, now, res)
         IN (IF skip THEN {} ELSE {IndexesToBuild[n]})
                \cup updateCalls(next, n + 1, file, fs, b, now)

\* ------------------------------------------------------------------ batches
\* batchRefreshIndexResults: the batch at curPos holds the slice
\* [curPos, curPos + filesPerBatch) of each of the four lists.
\* update() with the deletions before the tags.
KindNameDelBeforeTags == <<"compute", "del", "addTag", "removeTag">>

KindName == <<"compute", "addTag", "removeTag", "del">>

Slice(list, curPos) ==
    SubSeq(list, curPos + 1,
           IF curPos + filesPerBatch < Len(list) THEN curPos + filesPerBatch
           ELSE Len(list))

subResult(results, kind, curPos) == Slice(results[KindName[kind]], curPos)

\* batchRefreshIndexResults that yields the first batch only.
BatchExistsFirstOnly(results, curPos) ==
    /\ curPos = 0
    /\ \/ curPos < Len(results.compute)
       \/ curPos < Len(results.del)
       \/ curPos < Len(results.addTag)
       \/ curPos < Len(results.removeTag)

BatchExists(results, curPos) ==
    \/ curPos < Len(results.compute)
    \/ curPos < Len(results.del)
    \/ curPos < Len(results.addTag)
    \/ curPos < Len(results.removeTag)

EndPos == [curPos |-> 0, kind |-> 0, i |-> 0]

\* The next item at or after item i of list `kind` of the batch at curPos, in
\* the order update() and the batch loop take them; EndPos after the last.
RECURSIVE NormPos(_, _, _, _)
NormPos(results, curPos, kind, i) ==
    IF ~BatchExists(results, curPos) THEN EndPos
    ELSE IF kind > Len(KindName) THEN NormPos(results, curPos + filesPerBatch, 1, 1)
    ELSE IF i > Len(subResult(results, kind, curPos))
         THEN NormPos(results, curPos, kind + 1, 1)
         ELSE [curPos |-> curPos, kind |-> kind, i |-> i]

CurItem(results, pos) == subResult(results, pos.kind, pos.curPos)[pos.i]

\* One batch: the four slices at curPos, as the results update() is given.
batchAt(results, curPos) ==
    [compute |-> Slice(results.compute, curPos),
     del |-> Slice(results.del, curPos),
     addTag |-> Slice(results.addTag, curPos),
     removeTag |-> Slice(results.removeTag, curPos),
     lastUpdated |-> <<>>]

\* indexFiles' loop over batchRefreshIndexResults(results), update() of each
\* batch run to its end.
RECURSIVE runBatches(_, _, _, _, _)
runBatches(db, tag, T, res, curPos) ==
    IF ~BatchExists(res, curPos) THEN db
    ELSE runBatches(update(db, tag, T, batchAt(res, curPos)), tag, T, res,
                    curPos + filesPerBatch)

\* indexFiles from index n on, never paused nor aborted: plan, batches (when
\* totalOps > 0), markComplete(lastUpdated); ok is FALSE when that threw.
\* plans collects the plans made, index after index.
RECURSIVE indexFilesFrom(_, _, _, _, _, _, _)
indexFilesFrom(db, n, st, fs, b, now, plans) ==
    IF n > Len(IndexesToBuild) THEN [db |-> db, ok |-> TRUE, plans |-> plans]
    ELSE LET tag == IndexTag(b, IndexesToBuild[n])
             res == getComputeDeleteAddRemove(db.tag_catalog, db.global_cache,
                                              tag, st, fs)
             d1 == IF totalIndexOps(res) > 0 THEN runBatches(db, tag, now, res, 0)
                   ELSE db
             t == touchLastUpdated(d1, tag, now, res.lastUpdated)
         IN IF ~t.ok THEN [db |-> t.db, ok |-> FALSE, plans |-> Append(plans, res)]
            ELSE indexFilesFrom(t.db, n + 1, st, fs, b, now, Append(plans, res))

\* refreshFiles' loop, never paused: refreshFile of each file in turn.
RECURSIVE refreshFilesFrom(_, _, _, _, _)
refreshFilesFrom(db, fileSeq, fs, b, now) ==
    IF fileSeq = <<>> THEN db
    ELSE refreshFilesFrom(refreshFile(db, Head(fileSeq), fs, b, now),
                          Tail(fileSeq), fs, b, now)

\* --------------------------------------------------- failures of a refresh
\* An error message is a sequence of pieces: fixed texts, numbers, runs of the
\* letter d, parentheses.  A regular expression is a sequence of elements, each
\* a fixed text or DPlus, the group (d+): one or more letters d.
DPlus == "(d+)"
DRuns == {"d", "dd"}

\* errorsRegexesToClearIndexesOn, in the order of the source.  The groups of the
\* first are written (d+) and ((d+)): they match letters d, and no parenthesis
\* of the message.
errorsRegexesToClearIndexesOn ==
    << <<"Invalid argument error: Values length ", DPlus,
         " is less than the length ", DPlus,
         " multiplied by the value size ", DPlus>>,
       <<"SQLITE_CONSTRAINT">>,
       <<"SQLITE_ERROR">>,
       <<"SQLITE_CORRUPT">>,
       <<"SQLITE_IOERR">>,
       <<"SQLITE_FULL">> >>

\* One element of a regular expression against one piece of a message.
ElementMatches(element, piece) ==
    IF element = DPlus THEN piece \in DRuns ELSE piece = element

\* String.prototype.match of a regular expression without anchors: the
\* expression matches somewhere in the message.
match(message, regex) ==
    \E off \in 0..(Len(message) - Len(regex)) :
        \A j \in 1..Len(regex) : ElementMatches(regex[j], message[off + j])

\* The failures an artifact update raises, each with the kind of failure it is:
\* the vector store's length mismatch as LanceDB words it, the same words with
\* letters d for the numbers, SQLite's failures, a failure of the file system.
ErrorMessages ==
    [vectorLength |-> <<"Invalid argument error: Values length ", "1536",
                        " is less than the length ", "(", "768", ")",
                        " multiplied by the value size ", "(", "2", ")">>,
     vectorLengthOfLetters |-> <<"Invalid argument error: Values length ", "dd",
                        " is less than the length ", "d",
                        " multiplied by the value size ", "d">>,
     constraint |-> <<"SQLITE_CONSTRAINT", ": UNIQUE constraint failed">>,
     generic |-> <<"SQLITE_ERROR", ": no such table">>,
     corruption |-> <<"SQLITE_CORRUPT", ": database disk image is malformed">>,
     io |-> <<"SQLITE_IOERR", ": disk I/O error">>,
     full |-> <<"SQLITE_FULL", ": database or disk is full">>,
     busy |-> <<"SQLITE_BUSY", ": database is locked">>,
     fileSystem |-> <<"ENOENT", ": no such file or directory">>]

FailureKinds == DOMAIN ErrorMessages

\* What an update throws: an Error with its message, whose chain of causes ends
\* in an LLMError or not, or a value that is no Error.
Errors ==
    [isError : {TRUE}, failure : FailureKinds, rootIsLLM : BOOLEAN]
        \cup [isError : {FALSE}, failure : {"fileSystem"}, rootIsLLM : {FALSE}]

NoError == [isError |-> FALSE, failure |-> "none", rootIsLLM |-> FALSE]

\* getRootCause(err) instanceof LLMError.
getRootCauseIsLLMError(err) == err.rootIsLLM

\* errorToProgressUpdate: shouldClearIndexes is set when one of the regular
\* expressions matches err.message.
errorToProgressUpdate(err) ==
    [status |-> "failed",
     progress |-> [num |-> 0, den |-> 1],
     shouldClearIndexes |->
        \E k \in 1..Len(errorsRegexesToClearIndexesOn) :
            match(ErrorMessages[err.failure], errorsRegexesToClearIndexesOn[k])]

\* handleErrorAndGetProgressUpdate: an LLMError at the root is thrown on (no
\* update), an Error gives errorToProgressUpdate, anything else a failed update
\* without shouldClearIndexes.
handleErrorAndGetProgressUpdate(err) ==
    IF err.isError
    THEN IF getRootCauseIsLLMError(err)
         THEN [thrown |-> TRUE, update |-> errorToProgressUpdate(err)]
         ELSE [thrown |-> FALSE, update |-> errorToProgressUpdate(err)]
    ELSE [thrown |-> FALSE,
          update |-> [status |-> "failed", progress |-> [num |-> 0, den |-> 1],
                      shouldClearIndexes |-> FALSE]]

\* ------------------------------------------- refreshDirs over directories
\* A progress fraction, kept exact.
Fraction(num, den) == [num |-> num, den |-> den]
Zero == Fraction(0, 1)
One == Fraction(1, 1)
FractionLeq(a, b) == a.num * b.den <= b.num * a.den

ProgressUpdate(status, progress) ==
    [status |-> status, progress |-> progress, shouldClearIndexes |-> FALSE]

\* A plan of the given sizes; its items stand for (path, cacheKey) pairs.
PlanOfSizes(lens) ==
    [compute |-> [j \in 1..lens.compute |-> j],
     del |-> [j \in 1..lens.del |-> j],
     addTag |-> [j \in 1..lens.addTag |-> j],
     removeTag |-> [j \in 1..lens.removeTag |-> j],
     lastUpdated |-> <<>>]

PlanSizes ==
    [compute : 0..MaxComputeOps, del : 0..MaxOtherOps,
     addTag : 0..MaxOtherOps, removeTag : 0..MaxOtherOps]

\* indexFiles: progress = (completedIndexCount + completedOps / totalOps)
\*                        * (1 / indexesToBuild.length).
progressAfterBatch(completedIndexCount, completedOps, totalOps) ==
    Fraction(completedIndexCount * totalOps + completedOps,
             totalOps * Len(IndexesToBuild))

NoRd ==
    [pc |-> "idle", dirs |-> 0, dir |-> 0, index |-> 0,
     results |-> EmptyResults, pos |-> EndPos,
     completedOps |-> 0, completedIndexCount |-> 0, progress |-> Zero,
     n |-> 0, last |-> ProgressUpdate("none", Zero),
     log |-> <<>>, total |-> <<>>, left |-> <<>>,
     discovered |-> {}, failed |-> {}, err |-> NoError, thrown |-> FALSE]

\* ------------------------------------------------------ the core's calls
\* The calls of refreshCodebaseIndex and refreshCodebaseIndexFiles: call r
\* creates the AbortController r; 0 stands for undefined.
Runs == 1..MaxRuns

NoCall == [kind |-> "none", pc |-> "none", signal |-> 0]

NoCore ==
    [indexingCancellationController |-> 0, aborted |-> {},
     calls |-> [r \in Runs |-> NoCall]]

\* ---------------------------------------------------------- the debouncer
\* The requests of delayAndShouldDebounce, numbered as they come; request k
\* stands for its uuid and for the handle of its timer; 0 stands for undefined.
Requests == 1..MaxRequests

NoDeb ==
    [now |-> 0, debounceTimeout |-> 0, currentRequestId |-> 0,
     timers |-> [k \in Requests |-> 0],
     promise |-> [k \in Requests |-> "none"],
     superseded |-> {}]

\* ------------------------------------------------------- generator reuse
\* Strings are sequences of characters.
StringsUpTo(chars, n) == UNION {[1..m -> chars] : m \in 0..n}

Newline == "\n"
PrefixChars == {"a", "b"}
ChunkChars == {"a", Newline}
Prefixes == StringsUpTo(PrefixChars, MaxPrefixLen)
Chunks == StringsUpTo(ChunkChars, MaxChunkLen)

\* String.prototype.startsWith, slice(n), indexOf (0 when absent, else the
\* 1-based place).
startsWith(str, p) == Len(p) <= Len(str) /\ SubSeq(str, 1, Len(p)) = p
slice(str, n) == SubSeq(str, n + 1, Len(str))
indexOf(str, ch) ==
    IF \E j \in 1..Len(str) : str[j] = ch
    THEN CHOOSE j \in 1..Len(str) : str[j] = ch /\ \A q \in 1..(j - 1) : str[q] # ch
    ELSE 0

RECURSIVE Concat(_)
Concat(chunkSeq) ==
    IF chunkSeq = <<>> THEN <<>> ELSE Head(chunkSeq) \o Concat(Tail(chunkSeq))

\* getGenerator: "Ignore already typed characters in the completion".
RECURSIVE ignoreTyped(_, _)
ignoreTyped(chunk, typedSinceLastGenerator) ==
    IF chunk # <<>> /\ typedSinceLastGenerator # <<>>
       /\ Head(chunk) = Head(typedSinceLastGenerator)
    THEN ignoreTyped(Tail(chunk), Tail(typedSinceLastGenerator))
    ELSE [chunk |-> chunk, typedSinceLastGenerator |-> typedSinceLastGenerator]

\* The getGenerator calls, numbered as they come; the ListenableGenerator that
\* call c creates is generator c; 0 stands for undefined.
Gets == 1..MaxGets

NoListenable == [prefix |-> <<>>, buffer |-> <<>>, isEnded |-> FALSE, aborted |-> FALSE]

NoGet ==
    [pc |-> "none", prefix |-> <<>>, multiline |-> FALSE, generator |-> 0, i |-> 0,
     typedSinceLastGenerator |-> <<>>, delivered |-> <<>>,
     prior |-> 0, priorPrefix |-> <<>>, priorCompletion |-> <<>>]

NoGen ==
    [currentGenerator |-> 0, pendingGeneratorPrefix |-> <<>>,
     pendingCompletion |-> <<>>, fullStops |-> {},
     listenable |-> [g \in Gets |-> NoListenable],
     gets |-> [c \in Gets |-> NoGet]]

\* ------------------------------------------------- strings of the streams
\* String.prototype.includes, replace (of the first occurrence, by ""), trim
\* and trimStart, on strings as sequences of characters.
Whitespace == {" ", "\t", "\n", "\r"}

includes(str, sub) ==
    \E i \in 0..(Len(str) - Len(sub)) : SubSeq(str, i + 1, i + Len(sub)) = sub

replace(str, token) ==
    IF includes(str, token)
    THEN LET i == CHOOSE i \in 0..(Len(str) - Len(token)) :
                     /\ SubSeq(str, i + 1, i + Len(token)) = token
                     /\ \A q \in 0..(i - 1) : SubSeq(str, q + 1, q + Len(token)) # token
         IN SubSeq(str, 1, i) \o SubSeq(str, i + Len(token) + 1, Len(str))
    ELSE str

RECURSIVE trimStart(_)
trimStart(str) ==
    IF str # <<>> /\ Head(str) \in Whitespace THEN trimStart(Tail(str)) ELSE str

RECURSIVE trimEnd(_)
trimEnd(str) ==
    IF str # <<>> /\ str[Len(str)] \in Whitespace
    THEN trimEnd(SubSeq(str, 1, Len(str) - 1)) ELSE str

trim(str) == trimEnd(trimStart(str))

\* lines.join("\n").
RECURSIVE join(_)
join(lineSeq) ==
    IF lineSeq = <<>> THEN <<>>
    ELSE IF Len(lineSeq) = 1 THEN Head(lineSeq)
    ELSE Head(lineSeq) \o <<Newline>> \o join(Tail(lineSeq))

\* text.split("\n").
RECURSIVE split(_)
split(text) ==
    IF indexOf(text, Newline) = 0 THEN <<text>>
    ELSE <<SubSeq(text, 1, indexOf(text, Newline) - 1)>>
            \o split(slice(text, indexOf(text, Newline)))

\* The text cut into chunks after the places of cuts.
RECURSIVE ChunksOf(_, _, _)
ChunksOf(text, cuts, from) ==
    IF cuts = {} THEN <<slice(text, from)>>
    ELSE LET c == CHOOSE c \in cuts : \A q \in cuts : c <= q
         IN <<SubSeq(text, from + 1, c)>> \o ChunksOf(text, cuts \ {c}, c)

\* ------------------------------------------------------------ stop tokens
SRC_DIRECTORY == <<"/", "s", "r", "c", "/">>
PYTHON_ENCODING ==
    <<"#", "-", " ", "c", "o", "d", "i", "n", "g", ":", " ", "u", "t", "f", "-", "8">>
\* The character of CODE_BLOCK_END, by its name.
Backtick == "backtick"
CODE_BLOCK_END == <<Backtick, Backtick, Backtick>>
commonStops == <<SRC_DIRECTORY, PYTHON_ENCODING, CODE_BLOCK_END>>
STOP_AT_PATTERNS == <<<<"d", "i", "f", "f", " ", "-", "-", "g", "i", "t">>>>

\* getStopTokens for a model that is not starcoder2, completionOptions.stop
\* not given.
getStopTokens == commonStops

Max(S) == CHOOSE x \in S : \A y \in S : y <= x

\* ------------------------------------------------------------ charStream
\* stopAtStopTokens: the characters yielded for the chunks of the stream.  The
\* loop over the buffer, then the next chunk; at the end of the stream each
\* token is taken out of what is left of the buffer, and the rest is yielded.
RECURSIVE removeStopTokens(_, _)
removeStopTokens(buffer, stopTokens) ==
    IF stopTokens = <<>> THEN buffer
    ELSE removeStopTokens(replace(buffer, Head(stopTokens)), Tail(stopTokens))

RECURSIVE stopAtStopTokensFrom(_, _, _, _)
stopAtStopTokensFrom(chunkSeq, buffer, stopTokens, maxStopTokenLength) ==
    IF Len(buffer) >= maxStopTokenLength
    THEN IF \E k \in 1..Len(stopTokens) : startsWith(buffer, stopTokens[k])
         THEN <<>>
         ELSE <<buffer[1]>>
                 \o stopAtStopTokensFrom(chunkSeq, Tail(buffer), stopTokens,
                                         maxStopTokenLength)
    ELSE IF chunkSeq # <<>>
    THEN stopAtStopTokensFrom(Tail(chunkSeq), buffer \o Head(chunkSeq), stopTokens,
                              maxStopTokenLength)
    ELSE removeStopTokens(buffer, stopTokens)

stopAtStopTokens(chunkSeq, stopTokens) ==
    IF stopTokens = <<>> THEN Concat(chunkSeq)
    ELSE stopAtStopTokensFrom(chunkSeq, <<>>, stopTokens,
                              Max({Len(stopTokens[k]) : k \in 1..Len(stopTokens)}))

\* stopAtStartOf over the characters that reach it one at a time.
sequenceLength == 20

RECURSIVE stopAtStartOfFrom(_, _, _)
stopAtStartOfFrom(chars, buffer, targetPart) ==
    IF chars = <<>> THEN buffer
    ELSE LET b == Append(buffer, Head(chars))
         IN IF Len(b) >= sequenceLength /\ includes(targetPart, b)
            THEN <<>>
            ELSE IF Len(b) > sequenceLength
            THEN <<b[1]>> \o stopAtStartOfFrom(Tail(chars), Tail(b), targetPart)
            ELSE stopAtStartOfFrom(Tail(chars), b, targetPart)

stopAtStartOf(chars, suffix) ==
    IF Len(suffix) < sequenceLength THEN chars
    ELSE stopAtStartOfFrom(chars, <<>>,
                           SubSeq(trimStart(suffix), 1,
                                  IF Len(trimStart(suffix)) < (sequenceLength * 3) \div 2
                                  THEN Len(trimStart(suffix))
                                  ELSE (sequenceLength * 3) \div 2))

\* streamLines: the lines of the characters, the last one when it is not empty.
streamLines(chars) ==
    LET lineSeq == split(chars)
    IN IF lineSeq[Len(lineSeq)] = <<>> THEN SubSeq(lineSeq, 1, Len(lineSeq) - 1)
       ELSE lineSeq

\* ------------------------------------------------------------ lineStream
BRACKET_ENDING_CHARS == {")", "]", "}", ";"}
PREFIXES_TO_SKIP ==
    <<<<"<", "C", "O", "M", "P", "L", "E", "T", "I", "O", "N", ">">>>>
LINES_TO_STOP_AT ==
    <<<<"#", " ", "E", "n", "d", " ", "o", "f", " ", "f", "i", "l", "e", ".">>,
      <<"<", "S", "T", "O", "P", " ", "E", "D", "I", "T", "I", "N", "G", " ",
        "H", "E", "R", "E">>>>
MAX_REPEATS == 3

isBracketEnding(line) ==
    \E i \in 1..Len(trim(line)) : trim(line)[i] \in BRACKET_ENDING_CHARS

Min3(a, b, c) ==
    IF a <= b /\ a <= c THEN a ELSE IF b <= c THEN b ELSE c

\* distance of fastest-levenshtein, row after row.
RECURSIVE distanceRow(_, _, _, _)
distanceRow(prev, ch, b, row) ==
    IF Len(row) = Len(b) + 1 THEN row
    ELSE LET j == Len(row)
         IN distanceRow(prev, ch, b,
                        Append(row, Min3(prev[j + 1] + 1, row[j] + 1,
                                         prev[j] + (IF b[j] = ch THEN 0 ELSE 1))))

RECURSIVE distanceFrom(_, _, _, _)
distanceFrom(a, b, i, prev) ==
    IF i > Len(a) THEN prev[Len(b) + 1]
    ELSE distanceFrom(a, b, i + 1, distanceRow(prev, a[i], b, <<i>>))

distance(a, b) == distanceFrom(a, b, 1, [j \in 1..(Len(b) + 1) |-> j - 1])

\* distance(aTrim, bTrim) / bTrim.length < 0.1, in whole numbers.
lineIsRepeated(a, b) ==
    IF Len(a) <= 4 \/ Len(b) <= 4 THEN FALSE
    ELSE 10 * distance(trim(a), trim(b)) < Len(trim(b))

\* Each filter gives the lines it yields and whether it ended the stream
\* (fullStop, break or return) before its input was over.
Ended(lineSeq) == [lines |-> lineSeq, stopped |-> TRUE]
Through(lineSeq) == [lines |-> lineSeq, stopped |-> FALSE]
Yield(line, rest) == [rest EXCEPT !.lines = <<line>> \o @]

RECURSIVE stopAtLines(_)
stopAtLines(lineSeq) ==
    IF lineSeq = <<>> THEN Through(<<>>)
    ELSE IF \E k \in 1..Len(LINES_TO_STOP_AT) :
               includes(trim(Head(lineSeq)), LINES_TO_STOP_AT[k])
    THEN Ended(<<>>)
    ELSE Yield(Head(lineSeq), stopAtLines(Tail(lineSeq)))

RECURSIVE stopAtLinesExact(_, _)
stopAtLinesExactNever(lineSeq, linesToStopAt) == Through(lineSeq)

stopAtLinesExact(lineSeq, linesToStopAt) ==
    IF lineSeq = <<>> THEN Through(<<>>)
    ELSE IF Head(lineSeq) \in linesToStopAt THEN Ended(<<>>)
    ELSE Yield(Head(lineSeq), stopAtLinesExact(Tail(lineSeq), linesToStopAt))

\* previousLine is a one-element sequence, or <<>> for undefined.
RECURSIVE stopAtRepeatingLinesFrom(_, _, _)
stopAtRepeatingLinesFrom(lineSeq, previousLine, repeatCount) ==
    IF lineSeq = <<>> THEN Through(<<>>)
    ELSE IF previousLine = <<Head(lineSeq)>>
    THEN IF repeatCount + 1 = MAX_REPEATS THEN Ended(<<>>)
         ELSE stopAtRepeatingLinesFrom(Tail(lineSeq), previousLine, repeatCount + 1)
    ELSE Yield(Head(lineSeq),
               stopAtRepeatingLinesFrom(Tail(lineSeq), <<Head(lineSeq)>>, 1))

stopAtRepeatingLines(lineSeq) == stopAtRepeatingLinesFrom(lineSeq, <<>>, 0)

avoidEmptyComments(lineSeq, comment) ==
    SelectSeq(lineSeq, LAMBDA line : comment = <<>> \/ trim(line) # comment)

PathMark == <<" ", "P", "a", "t", "h", ":", " ">>

avoidPathLine(lineSeq, comment) ==
    SelectSeq(lineSeq, LAMBDA line : ~startsWith(line, comment \o PathMark))

RECURSIVE skipPrefixesFrom(_, _)
skipPrefixesFrom(lineSeq, isFirstLine) ==
    IF lineSeq = <<>> THEN <<>>
    ELSE IF isFirstLine
            /\ \E k \in 1..Len(PREFIXES_TO_SKIP) :
                  startsWith(Head(lineSeq), PREFIXES_TO_SKIP[k])
    THEN LET k == CHOOSE k \in 1..Len(PREFIXES_TO_SKIP) :
                     /\ startsWith(Head(lineSeq), PREFIXES_TO_SKIP[k])
                     /\ \A q \in 1..(k - 1) :
                           ~startsWith(Head(lineSeq), PREFIXES_TO_SKIP[q])
         IN <<slice(Head(lineSeq), Len(PREFIXES_TO_SKIP[k]))>>
               \o skipPrefixesFrom(Tail(lineSeq), TRUE)
    ELSE <<Head(lineSeq)>> \o skipPrefixesFrom(Tail(lineSeq), FALSE)

skipPrefixes(lineSeq) == skipPrefixesFrom(lineSeq, TRUE)

RECURSIVE noDoubleNewLineFrom(_, _)
noDoubleNewLineAlways(lineSeq, isFirstLine) == Through(lineSeq)

noDoubleNewLineFrom(lineSeq, isFirstLine) ==
    IF lineSeq = <<>> THEN Through(<<>>)
    ELSE IF trim(Head(lineSeq)) = <<>> /\ ~isFirstLine THEN Ended(<<>>)
    ELSE Yield(Head(lineSeq), noDoubleNewLineFrom(Tail(lineSeq), FALSE))

noDoubleNewLine(lineSeq) == noDoubleNewLineFrom(lineSeq, TRUE)

RECURSIVE stopAtSimilarLine(_, _)
stopAtSimilarLine(lineSeq, line) ==
    IF lineSeq = <<>> THEN Through(<<>>)
    ELSE IF trim(line) = <<>>
    THEN Yield(Head(lineSeq), stopAtSimilarLine(Tail(lineSeq), line))
    ELSE IF isBracketEnding(trim(line)) /\ trim(line) = trim(Head(lineSeq))
    THEN Yield(Head(lineSeq), stopAtSimilarLine(Tail(lineSeq), line))
    ELSE IF Head(lineSeq) = line THEN Ended(<<>>)
    ELSE IF lineIsRepeated(Head(lineSeq), trim(line)) THEN Ended(<<>>)
    ELSE Yield(Head(lineSeq), stopAtSimilarLine(Tail(lineSeq), line))

\* showWhateverWeHaveAtXMs; Date.now() - startTime > ms holds from the
\* slowFrom-th line on.
RECURSIVE showWhateverWeHaveAtXMsFrom(_, _, _, _)
showWhateverWeHaveAtXMsFrom(lineSeq, slowFrom, n, firstNonWhitespaceLineYielded) ==
    IF lineSeq = <<>> THEN Through(<<>>)
    ELSE LET seen == firstNonWhitespaceLineYielded \/ trim(Head(lineSeq)) # <<>>
         IN IF n >= slowFrom /\ seen
            THEN [lines |-> <<Head(lineSeq)>>, stopped |-> Tail(lineSeq) # <<>>]
            ELSE Yield(Head(lineSeq),
                       showWhateverWeHaveAtXMsFrom(Tail(lineSeq), slowFrom, n + 1, seen))

showWhateverWeHaveAtXMs(lineSeq, slowFrom) ==
    showWhateverWeHaveAtXMsFrom(lineSeq, slowFrom, 1, FALSE)

\* streamWithNewLines: what it yields, put together.
streamWithNewLines(lineSeq) == join(lineSeq)

\* -------------------------------------------------- StreamTransformPipeline
\* helper: the lines of the file, the line of the cursor (from 0) and the
\* comment mark of the language.  The cursor is at the end of its line: the suffix
\* is the lines below it.
RECURSIVE getLineBelowCursorFrom(_, _, _)
getLineBelowCursorFrom(helper, lineBelowCursor, i) ==
    IF trim(lineBelowCursor) = <<>> /\ helper.pos + i <= Len(helper.fileLines) - 1
    THEN getLineBelowCursorFrom(helper, helper.fileLines[helper.pos + i + 1], i + 1)
    ELSE lineBelowCursor

getLineBelowCursor(helper) == getLineBelowCursorFrom(helper, <<>>, 1)

RECURSIVE suffixOf(_, _)
suffixOf(helper, i) ==
    IF helper.pos + i <= Len(helper.fileLines) - 1
    THEN <<Newline>> \o helper.fileLines[helper.pos + i + 1] \o suffixOf(helper, i + 1)
    ELSE <<>>

\* transform: the stages in their order, no filter of the language; what each
\* stage yields is kept, text is what the caller of transform receives.
transform(chunkSeq, suffix, stopTokens, helper, slowFrom) ==
    LET chars1 == stopAtStopTokens(chunkSeq, stopTokens \o STOP_AT_PATTERNS)
        chars2 == stopAtStartOf(chars1, suffix)
        lines0 == streamLines(chars2)
        atLines == stopAtLines(lines0)
        lineBelowCursor == getLineBelowCursor(helper)
        exact == IF trim(lineBelowCursor) # <<>>
                 THEN stopAtLinesExact(atLines.lines, {lineBelowCursor})
                 ELSE Through(atLines.lines)
        repeating == stopAtRepeatingLines(exact.lines)
        lines4 == avoidEmptyComments(repeating.lines, helper.singleLineComment)
        lines5 == avoidPathLine(lines4, helper.singleLineComment)
        lines6 == skipPrefixes(lines5)
        double == noDoubleNewLine(lines6)
        similar == stopAtSimilarLine(double.lines, lineBelowCursor)
        timed == showWhateverWeHaveAtXMs(similar.lines, slowFrom)
    IN [chars |-> chars2, atStartOf |-> Len(chars2) # Len(chars1),
        atLines |-> atLines.stopped, exact |-> exact.stopped,
        repeating |-> repeating.stopped, double |-> double.stopped,
        similar |-> similar.stopped, timed |-> timed.stopped,
        lines |-> timed.lines,
        text |-> streamWithNewLines(timed.lines)]

\* ------------------------------------------------------- CompletionStreamer
\* The model's texts: the lines of a small vocabulary, and two texts with the
\* surroundings they are streamed in.
Blank == <<>>
Space == <<" ">>
Code == <<"a">>
COMPLETION_A == <<"<", "C", "O", "M", "P", "L", "E", "T", "I", "O", "N", ">", "a">>
CODE_MARK == <<"[", "C", "O", "D", "E", "]">>
LineVocabulary == {Blank, Space, Code, COMPLETION_A, CODE_MARK}

LET_X == <<"l", "e", "t", " ", "x", " ", "=", " ", "1">>
SRC_FOO == <<"/", "s", "r", "c", "/", "f", "o", "o">>
DO_THING == <<"d", "o", "T", "h", "i", "n", "g", "(", ")", ";">>
RETURN_RESULT ==
    <<"r", "e", "t", "u", "r", "n", " ", "r", "e", "s", "u", "l", "t", ";">>
CLOSING == <<"}">>
THE_END == <<"/", "/", " ", "t", "h", "e", " ", "e", "n", "d">>

ExampleTexts ==
    {join(<<LET_X, SRC_FOO>>),
     join(<<DO_THING, RETURN_RESULT, Blank>>),
     join(<<DO_THING, RETURN_RESULT, CLOSING>>),
     join(<<DO_THING, RETURN_RESULT, CLOSING, THE_END>>)}

ModelTexts ==
    ExampleTexts
       \cup {join(lineSeq) : lineSeq \in UNION {[1..n -> LineVocabulary] : n \in 1..MaxLines}}

\* The places a text of the model may be cut into chunks at: the sets of at
\* most n places of the text.
RECURSIVE CutsUpTo(_, _)
CutsUpTo(places, n) ==
    IF n = 0 THEN {{}}
    ELSE LET fewer == CutsUpTo(places, n - 1)
         IN fewer \cup {c \cup {a} : c \in fewer, a \in places}

Cuts(text) == CutsUpTo(1..(Len(text) - 1), MaxCuts)

SingleLineComment == <<"/", "/">>

\* The files: nothing below the cursor; "return result;" below it after a
\* blank line, with a suffix of less and of more than sequenceLength.
Helpers ==
    {[fileLines |-> <<Code>>, pos |-> 0, singleLineComment |-> SingleLineComment],
     [fileLines |-> <<Code, Blank, RETURN_RESULT>>, pos |-> 0,
      singleLineComment |-> SingleLineComment],
     [fileLines |-> <<Code, RETURN_RESULT, CLOSING, THE_END>>, pos |-> 0,
      singleLineComment |-> SingleLineComment]}

\* showWhateverWeHaveAtXMs is out of time from the first line on, or never.
NoTimeout == MaxLines + 2
SlowFrom == {1, NoTimeout}

NoHelper == [fileLines |-> <<>>, pos |-> 0, singleLineComment |-> <<>>]

NoCs ==
    [pc |-> "none", text |-> <<>>, chunks |-> <<>>, forwarded |-> <<>>,
     aborted |-> FALSE, transform |-> FALSE, helper |-> NoHelper, slowFrom |-> 0,
     out |-> transform(<<>>, <<>>, <<>>, NoHelper, 0)]

\* ------------------------------------------------ AutocompleteLoggingService
COUNT_COMPLETION_REJECTED_AFTER == 10000
SameIntentionWithin == 500

CompletionIds == 1..NumCompletionIds

\* What the clock may advance by between two events: less than
\* SameIntentionWithin, and COUNT_COMPLETION_REJECTED_AFTER.
TimeSteps == {400, COUNT_COMPLETION_REJECTED_AFTER}

\* The completions displayed: a line, the line with more after it, the same
\* with a second line, another line.
Completions ==
    {<<"a">>, <<"a", "b">>, <<"a", Newline, "c">>, <<"c">>}

endsWith(str, sub) ==
    Len(sub) <= Len(str) /\ SubSeq(str, Len(str) - Len(sub) + 1, Len(str)) = sub

NoOutcome == [completion |-> <<>>, accepted |-> "undefined"]
NoTimeoutSet == 0
NoDisplayed == [id |-> 0, displayedAt |-> 0]

\* _outcomes and _logRejectionTimeouts by completion id (a timeout is the time
\* it is due at, each id is displayed once), _lastDisplayedCompletion, the
\* outcomes logged so far, and for each id whether the second display that
\* followed it came within SameIntentionWithin with the same first line.
NoAls ==
    [now |-> 0, ticks |-> 0,
     outcomes |-> [id \in CompletionIds |-> NoOutcome],
     logRejectionTimeouts |-> [id \in CompletionIds |-> NoTimeoutSet],
     lastDisplayedCompletion |-> NoDisplayed,
     displayed |-> [id \in CompletionIds |-> 0],
     log |-> <<>>,
     followed |-> [id \in CompletionIds |-> FALSE],
     accepts |-> {}]

\* ------------------------------------------------- BracketMatchingService
Openers == {"(", "{", "["}
Closers == {")", "}", "]"}
BRACKETS == [b \in Openers |-> CASE b = "(" -> ")" [] b = "{" -> "}" [] b = "[" -> "]"]
BRACKETS_REVERSE ==
    [b \in Closers |-> CASE b = ")" -> "(" [] b = "}" -> "{" [] b = "]" -> "["]

\* A stack is a sequence, its top at the end: push, pop and unshift.
top(stack) == stack[Len(stack)]
pop(stack) == SubSeq(stack, 1, Len(stack) - 1)

\* The loop of handleAcceptedCompletion, and of the current line of a single
\* line completion: openers are pushed, a closer pops, the loop is left at a
\* closer that finds the stack empty or pops another opener than its own.
RECURSIVE scanBrackets(_, _)
scanBrackets(str, stack) ==
    IF str = <<>> THEN stack
    ELSE IF Head(str) \in Openers THEN scanBrackets(Tail(str), Append(stack, Head(str)))
    ELSE IF Head(str) \in Closers
    THEN IF stack = <<>> THEN stack
         ELSE IF BRACKETS[top(stack)] # Head(str) THEN pop(stack)
         ELSE scanBrackets(Tail(str), pop(stack))
    ELSE scanBrackets(Tail(str), stack)

\* The openers of the closing brackets the suffix begins with, blanks passed
\* over, each put under the stack.
RECURSIVE openersOfSuffix(_, _)
openersOfSuffix(suffix, stack) ==
    IF suffix = <<>> THEN stack
    ELSE IF Head(suffix) = " " THEN openersOfSuffix(Tail(suffix), stack)
    ELSE IF Head(suffix) \notin Closers THEN stack
    ELSE openersOfSuffix(Tail(suffix), <<BRACKETS_REVERSE[Head(suffix)]>> \o stack)

\* chunk.search(/[^\s\)\}\]]/): the place of the first character that is
\* neither whitespace nor a closing bracket, 0 when there is none.
searchCode(chunk) ==
    IF \E i \in 1..Len(chunk) : chunk[i] \notin Whitespace \cup Closers
    THEN CHOOSE i \in 1..Len(chunk) :
            /\ chunk[i] \notin Whitespace \cup Closers
            /\ \A q \in 1..(i - 1) : chunk[q] \in Whitespace \cup Closers
    ELSE 0

\* The loop over the characters of a chunk: the stack after it, and the place
\* of the closer the generator returns at, 0 when it goes on.
RECURSIVE bracketsOfChunk(_, _, _)
bracketsOfChunk(chunk, i, stack) ==
    IF i > Len(chunk) THEN [stack |-> stack, stoppedAt |-> 0]
    ELSE IF chunk[i] \in Closers
    THEN IF stack = <<>> \/ BRACKETS[top(stack)] # chunk[i]
         THEN [stack |-> IF stack = <<>> THEN stack ELSE pop(stack), stoppedAt |-> i]
         ELSE bracketsOfChunk(chunk, i + 1, pop(stack))
    ELSE IF chunk[i] \in Openers
    THEN bracketsOfChunk(chunk, i + 1, Append(stack, chunk[i]))
    ELSE bracketsOfChunk(chunk, i + 1, stack)

\* The streams of the model, the completions accepted before, the end of the
\* prefix and the beginning of the suffix on the line of the cursor.
BracketChars == {"(", ")", "}", "a", " "}
BracketStreams == StringsUpTo(BracketChars, MaxStreamLen)
AcceptedCompletions == {<<>>, <<"a", "(">>}
LinePrefixes == {<<>>, <<"(">>}
LineSuffixes == {<<>>, <<")">>}
Filepaths == {"file1", "file2"}

NoBm ==
    [openingBracketsFromLastCompletion |-> <<>>, lastCompletionFile |-> "undefined",
     accepted |-> FALSE,
     pc |-> "none", stream |-> <<>>, chunks |-> <<>>, seeded |-> <<>>, stack |-> <<>>,
     seenNonWhitespaceOrClosingBracket |-> FALSE, yielded |-> <<>>]

\* ------------------------------------------------------------------ chunker
\* The files of the model: characters of a word, blanks and newlines. The
\* token counter is a parameter: a word character is one token, a blank none,
\* and a newline newlineTokens of them (basicChunker reckons one for it).
FileChars == {"w", " ", Newline}
FileContents == StringsUpTo(FileChars, MaxFileLen)
MaxChunkSizes == {2, 6}
NewlineTokens == {1, 2}

countTokens(str, newlineTokens) ==
    Cardinality({i \in 1..Len(str) : str[i] = "w"})
        + newlineTokens * Cardinality({i \in 1..Len(str) : str[i] = Newline})

NoCh ==
    [pc |-> "none", contents |-> <<>>, maxChunkSize |-> 0, newlineTokens |-> 1,
     lineTokens |-> <<>>, chunkContent |-> <<>>, chunkTokens |-> 0,
     startLine |-> 0, currLine |-> 0,
     chunkPromises |-> <<>>, index |-> 0, resolved |-> 0, chunks |-> <<>>]

\* ------------------------------------------------ Core: message abort registry
\* The ids of the messages; controller k stands for the k-th AbortController
\* made, 0 for no entry of the map.
MessageIds == {"m1", "m2", "m3"}
Controllers == 1..MaxControllers

NoReg ==
    [messageAbortControllers |-> [id \in MessageIds |-> 0],
     aborted |-> {}, made |-> 0,
     controllerOf |-> [id \in MessageIds |-> 0],
     last |-> [op |-> "none", id |-> "none"]]

\* ---------------------------------------------------------- noDoubleNewLine
\* The line streams noDoubleNewLine is applied to.
DoubleLineVocabulary == {<<"a">>, <<"b">>, <<"c">>, Blank}
DoubleLineStreams == UNION {[1..n -> DoubleLineVocabulary] : n \in 0..MaxDoubleLines}

NoDn == [pc |-> "none", lines |-> <<>>, out |-> Through(<<>>)]

\* --------------------------------------------------- shouldCompleteMultiline
\* language.useMultiline?.({prefix, suffix}) ?? true: a language has no
\* useMultiline, or one that answers yes or no for the prefix and suffix.
shouldCompleteMultilineBasedOnLanguage(language) ==
    IF language.useMultiline = "undefined" THEN TRUE
    ELSE language.useMultiline = "true"

shouldCompleteMultiline(helper) ==
    IF helper.options.multilineCompletions = "always" THEN TRUE
    ELSE IF helper.options.multilineCompletions = "never" THEN FALSE
    ELSE IF helper.input.selectedCompletionInfo THEN TRUE
    ELSE IF /\ helper.lang.singleLineComment # <<>>
            /\ startsWith(trimStart(split(helper.fullPrefix)[Len(split(helper.fullPrefix))]),
                          helper.lang.singleLineComment)
    THEN FALSE
    ELSE shouldCompleteMultilineBasedOnLanguage(helper.lang)

\* The helpers of the model: the three settings, the pop-up of the IDE shown or
\* not, languages with and without a marker of comments, and the text before
\* the cursor.
MultilineCompletions == {"always", "never", "auto"}
FullPrefixChars == {"/", "a", " ", Newline}
FullPrefixes == StringsUpTo(FullPrefixChars, MaxFullPrefixLen)
Languages ==
    [singleLineComment : {<<>>, SingleLineComment},
     useMultiline : {"undefined", "true", "false"}]
MultilineHelpers ==
    [options : [multilineCompletions : MultilineCompletions],
     input : [selectedCompletionInfo : BOOLEAN],
     lang : Languages,
     fullPrefix : FullPrefixes]

NoMl ==
    [pc |-> "none",
     helper |-> [options |-> [multilineCompletions |-> "auto"],
                 input |-> [selectedCompletionInfo |-> FALSE],
                 lang |-> [singleLineComment |-> <<>>, useMultiline |-> "undefined"],
                 fullPrefix |-> <<>>],
     multiline |-> FALSE]

\* ------------------------------------------------------ ListenableGenerator
\* The source yields the values 1, 2, ... in turn; consumer c stands for the
\* tee() it iterates and for the resolve function of the promise it awaits.
Consumers == 1..NumConsumers

NoTee == [pc |-> "none", i |-> 0, received |-> <<>>, startedAt |-> 0, awaited |-> FALSE]

NoLg ==
    [buffer |-> <<>>, listeners |-> {}, isEnded |-> FALSE, aborted |-> FALSE,
     started |-> TRUE, yielded |-> 0,
     tees |-> [c \in Consumers |-> NoTee]]

\* ------------------------------------------------ messenger: _handleData
CR == "\r"
CRLF == <<CR, Newline>>

\* d.split(/\r\n/).
RECURSIVE splitCRLF(_)
splitCRLF(d) ==
    IF ~includes(d, CRLF) THEN <<d>>
    ELSE LET i == CHOOSE i \in 1..(Len(d) - 1) :
                     /\ SubSeq(d, i, i + 1) = CRLF
                     /\ \A q \in 1..(i - 1) : SubSeq(d, q, q + 1) # CRLF
         IN <<SubSeq(d, 1, i - 1)>> \o splitCRLF(slice(d, i + 1))

\* .filter((line) => line.trim() !== "")
NotBlank(line) == trim(line) # <<>>

\* The messages sent, each a line ended by \r\n on the wire.
MessageLines == {<<"a">>, <<"b", "c">>, <<"d">>}
MessageSeqs == UNION {[1..n -> MessageLines] : n \in 0..MaxMessages}

RECURSIVE wire(_)
wire(messageSeq) ==
    IF messageSeq = <<>> THEN <<>>
    ELSE Head(messageSeq) \o CRLF \o wire(Tail(messageSeq))

NoIm ==
    [pc |-> "none", sent |-> <<>>, chunks |-> <<>>, unfinishedLine |-> <<>>,
     handled |-> <<>>]

\* ------------------------------------------- refreshFiles, progress stream
\* The state of one refreshFiles(files) call: the number of files, the place
\* in the loop and the updates yielded so far.
NoPg ==
    [pc |-> "idle", files |-> 0, file |-> 1, updates |-> <<>>,
     thrown |-> FALSE]

\* The terminal statuses of a progress update.
TerminalStatuses == {"done", "failed", "cancelled"}

\* ----------------------------------------- modifications during a refresh
\* The paths modified while a refresh was running, how often that happened,
\* and whether the refresh that runs now has seen no modification since it
\* started.
NoCw == [during |-> {}, modifications |-> 0, quiet |-> TRUE]

\* Date.now() and lastModified are whole milliseconds: a write falls in the
\* millisecond of the clock or in a later one.
Ticks == {0, 1}

\* -------------------------------------------------------------------- state
VARIABLES
    files,          \* the workspace: path -> [content, lastModified] or NoFile
    clock,          \* Date.now()
    aborts,         \* how often the indexing run has been cancelled so far
    branch,         \* ide.getBranch(directory)
    pauseToken,     \* PauseToken.paused
    tag_catalog,    \* table tag_catalog
    global_cache,   \* table global_cache
    chunks,         \* table chunks, as its (path, cacheKey) pairs
    fts_metadata,   \* tables fts / fts_metadata, as their (path, cacheKey) pairs
    op,             \* the run in progress: "none", "dirs" (refreshDirs), "files"
    pc,             \* where the run stands
    abortSignal,    \* indexingCancellationController.signal.aborted
    walkRest,       \* files walkDirAsync has still to hand over
    directoryFiles, \* refreshDirs: the files discovered so far
    stats,          \* indexFiles: ide.getFileStats(files)
    indexPos,       \* indexFiles: position in indexesToBuild
    results,        \* indexFiles: the plan and the lastUpdated list
    timestamp,      \* the planner's newLastUpdatedTimestamp
    pos,            \* the item update() stands at: [curPos, kind, i]
    resumePc,       \* yieldUpdateAndPause: where the run goes on after the pause
    filesArg,       \* refreshFiles(files)
    filePos,        \* refreshFiles: position in files
    stream,         \* the progress stream: its last status, its cancelled updates
    pre,            \* the database as it was when the run started
    planned,        \* the plans the run has made, index after index
    skipped,        \* a refreshFile of the run returned at its pause check
    workAfterAbort, \* an item was computed or completed with the signal aborted
    rd,             \* a refreshDirs call over several directories, its plans as inputs
    core,           \* Core: indexingCancellationController and the refresh calls under way
    deb,            \* AutocompleteDebouncer, its timers and the promises it returned
    gen,            \* GeneratorReuseManager, its generators and the getGenerator calls
    cs,             \* CompletionStreamer.streamCompletionWithFilters, one call
    als,            \* AutocompleteLoggingService: outcomes, rejection timeouts, what was logged
    bm,             \* BracketMatchingService and one stream through stopOnUnmatchedClosingBracket
    ch,             \* chunkDocument: the file, the accumulator and the chunks
    reg,             \* Core: the abort controllers of the messages
    dn,             \* noDoubleNewLine: the lines read and the lines yielded
    ml,             \* shouldCompleteMultiline: the helper and the decision
    lg,             \* ListenableGenerator: buffer, listeners and the tees
    im,             \* IPC messenger: the data received and the lines handled
    pg,             \* refreshFiles: the progress stream of one call
    cw              \* files modified while a refresh runs

dbVars == <<tag_catalog, global_cache, chunks, fts_metadata>>
envVars == <<files, clock, branch, aborts>>
dirVars == <<walkRest, directoryFiles, stats, indexPos, results, timestamp, pos>>
fileVars == <<filesArg, filePos, skipped>>
\* The variables of the single-directory indexer.
indexerVars == <<files, clock, branch, aborts, pauseToken, tag_catalog, global_cache,
                 chunks, fts_metadata, op, pc, abortSignal, walkRest, directoryFiles,
                 stats, indexPos, results, timestamp, pos, resumePc, filesArg, filePos,
                 stream, pre, planned, skipped, workAfterAbort>>
\* The variables of the components other than the single-directory indexer.
auxVars == <<rd, core, deb, gen, cs, als, bm, ch, reg, dn, ml, lg, im, pg, cw>>
\* All variables but rd, all but core, all but deb, all but gen.
notRd == <<indexerVars, core, deb, gen, cs, als, bm, ch, reg, dn, ml, lg, im, pg, cw>>
notCore == <<indexerVars, rd, deb, gen, cs, als, bm, ch, reg, dn, ml, lg, im, pg, cw>>
notDeb == <<indexerVars, rd, core, gen, cs, als, bm, ch, reg, dn, ml, lg, im, pg, cw>>
notGen == <<indexerVars, rd, core, deb, cs, als, bm, ch, reg, dn, ml, lg, im, pg, cw>>
notCs == <<indexerVars, rd, core, deb, gen, als, bm, ch, reg, dn, ml, lg, im, pg, cw>>
notAls == <<indexerVars, rd, core, deb, gen, cs, bm, ch, reg, dn, ml, lg, im, pg, cw>>
notBm == <<indexerVars, rd, core, deb, gen, cs, als, ch, reg, dn, ml, lg, im, pg, cw>>
notCh == <<indexerVars, rd, core, deb, gen, cs, als, bm, reg, dn, ml, lg, im, pg, cw>>
notReg == <<indexerVars, rd, core, deb, gen, cs, als, bm, ch, dn, ml, lg, im, pg, cw>>
notDn == <<indexerVars, rd, core, deb, gen, cs, als, bm, ch, reg, ml, lg, im, pg, cw>>
notMl == <<indexerVars, rd, core, deb, gen, cs, als, bm, ch, reg, dn, lg, im, pg, cw>>
notLg == <<indexerVars, rd, core, deb, gen, cs, als, bm, ch, reg, dn, ml, im, pg, cw>>
notIm == <<indexerVars, rd, core, deb, gen, cs, als, bm, ch, reg, dn, ml, lg, pg, cw>>
notPg == <<indexerVars, rd, core, deb, gen, cs, als, bm, ch, reg, dn, ml, lg, im, cw>>
notCw == <<indexerVars, rd, core, deb, gen, cs, als, bm, ch, reg, dn, ml, lg, im, pg>>

vars == <<files, clock, branch, aborts, pauseToken, tag_catalog, global_cache, chunks,
          fts_metadata, op, pc, abortSignal, walkRest, directoryFiles, stats,
          indexPos, results, timestamp, pos, resumePc, filesArg, filePos, stream,
          pre, planned, skipped, workAfterAbort, rd, core, deb, gen, cs, als, bm, ch, reg, dn, ml, lg, im, pg, cw>>

CurDb == Db(tag_catalog, global_cache, chunks, fts_metadata)

SetDb(db) ==
    /\ tag_catalog' = db.tag_catalog
    /\ global_cache' = db.global_cache
    /\ chunks' = db.chunks
    /\ fts_metadata' = db.fts_metadata

NoStream == [last |-> "none", cancelled |-> 0]
NoPre == Db({}, {}, {}, {})
NoStats == [p \in {} |-> 0]

Emit(st, status) ==
    [last |-> status,
     cancelled |-> IF status = "cancelled" THEN st.cancelled + 1 ELSE st.cancelled]

CurTag == IndexTag(branch, IndexesToBuild[indexPos])

IndexerInit ==
    /\ files = [p \in Paths |-> NoFile]
    /\ clock = 0
    /\ aborts = 0
    /\ branch = 1
    /\ pauseToken = FALSE
    /\ tag_catalog = {}
    /\ global_cache = {}
    /\ chunks = {}
    /\ fts_metadata = {}
    /\ op = "none"
    /\ pc = "idle"
    /\ abortSignal = FALSE
    /\ walkRest = <<>>
    /\ directoryFiles = <<>>
    /\ stats = NoStats
    /\ indexPos = 0
    /\ results = EmptyResults
    /\ timestamp = 0
    /\ pos = EndPos
    /\ resumePc = "idle"
    /\ filesArg = <<>>
    /\ filePos = 0
    /\ stream = NoStream
    /\ pre = NoPre
    /\ planned = <<>>
    /\ skipped = FALSE
    /\ workAfterAbort = FALSE

Init ==
    /\ IndexerInit
    /\ rd = NoRd
    /\ core = NoCore
    /\ deb = NoDeb
    /\ gen = NoGen
    /\ cs = NoCs
    /\ als = NoAls
    /\ bm = NoBm
    /\ ch = NoCh
    /\ reg = NoReg
    /\ dn = NoDn
    /\ ml = NoMl
    /\ lg = NoLg
    /\ im = NoIm
    /\ pg = NoPg
    /\ cw = NoCw

\* ------------------------------------------------------------ environment
\* The user's edits happen between runs, each at a later millisecond than the
\* last; `limit` bounds how many a behaviour holds.
\* A write creates the file, changes it or saves it unchanged; the file
\* carries the time of the write.
WriteFile(p, c, limit) ==
    /\ pc = "idle"
    /\ clock < limit
    /\ clock' = clock + 1
    /\ files' = [files EXCEPT ![p] = [content |-> c, lastModified |-> clock + 1]]
    /\ UNCHANGED <<aborts, branch, pauseToken, dbVars, op, pc, abortSignal, dirVars,
                   resumePc, fileVars, stream, pre, planned, workAfterAbort>>
    /\ UNCHANGED auxVars

DeleteFile(p, limit) ==
    /\ pc = "idle"
    /\ clock < limit
    /\ Exists(files[p])
    /\ clock' = clock + 1
    /\ files' = [files EXCEPT ![p] = NoFile]
    /\ UNCHANGED <<aborts, branch, pauseToken, dbVars, op, pc, abortSignal, dirVars,
                   resumePc, fileVars, stream, pre, planned, workAfterAbort>>
    /\ UNCHANGED auxVars

\* A rename to a free path keeps the content and the modification time.
RenameFile(p, q, limit) ==
    /\ pc = "idle"
    /\ clock < limit
    /\ Exists(files[p])
    /\ ~Exists(files[q])
    /\ clock' = clock + 1
    /\ files' = [files EXCEPT ![q] = files[p], ![p] = NoFile]
    /\ UNCHANGED <<aborts, branch, pauseToken, dbVars, op, pc, abortSignal, dirVars,
                   resumePc, fileVars, stream, pre, planned, workAfterAbort>>
    /\ UNCHANGED auxVars

\* The directory is switched to another branch, its files as they are.
SwitchBranch(b, limit) ==
    /\ pc = "idle"
    /\ clock < limit
    /\ b # branch
    /\ clock' = clock + 1
    /\ branch' = b
    /\ UNCHANGED <<aborts, files, pauseToken, dbVars, op, pc, abortSignal, dirVars,
                   resumePc, fileVars, stream, pre, planned, workAfterAbort>>
    /\ UNCHANGED auxVars

\* index/setPaused
SetPaused ==
    /\ pauseToken' = ~pauseToken
    /\ UNCHANGED <<envVars, dbVars, op, pc, abortSignal, dirVars, resumePc,
                   fileVars, stream, pre, planned, workAfterAbort>>
    /\ UNCHANGED auxVars

\* indexingCancellationController.abort() while refreshDirs runs
Abort ==
    /\ op = "dirs"
    /\ pc \notin {"idle", "finished"}
    /\ ~abortSignal
    /\ aborts < MaxAborts
    /\ abortSignal' = TRUE
    /\ aborts' = aborts + 1
    /\ UNCHANGED <<files, clock, branch, pauseToken, dbVars, op, pc, dirVars, resumePc,
                   fileVars, stream, pre, planned, workAfterAbort>>
    /\ UNCHANGED auxVars

\* ------------------------------------------------------------ refreshDirs
\* Check with the return after the cancelled update left out: the loop over
\* the updates goes on.
CheckNoReturn(nextPc) ==
    IF abortSignal
    THEN /\ stream' = Emit(stream, "cancelled")
         /\ pc' = nextPc
         /\ UNCHANGED resumePc
    ELSE IF pauseToken
         THEN /\ stream' = Emit(stream, "paused")
              /\ pc' = "paused"
              /\ resumePc' = nextPc
         ELSE /\ stream' = Emit(stream, "indexing")
              /\ pc' = nextPc
              /\ UNCHANGED resumePc

\* The body of refreshDirs' loop over the updates of indexFiles: cancelled and
\* return when the signal is aborted, else paused when the pause token is set
\* (the update is yielded after the pause), else the update is yielded.
Check(nextPc) ==
    IF abortSignal
    THEN /\ stream' = Emit(stream, "cancelled")
         /\ pc' = "finished"
         /\ UNCHANGED resumePc
    ELSE IF pauseToken
         THEN /\ stream' = Emit(stream, "paused")
              /\ pc' = "paused"
              /\ resumePc' = nextPc
         ELSE /\ stream' = Emit(stream, "indexing")
              /\ pc' = nextPc
              /\ UNCHANGED resumePc

\* core.refreshCodebaseIndex -> refreshDirs([directory], signal): the two
\* loading updates and the "Discovering files" update, the walk starts.
RefreshDirsBegins ==
    /\ pc = "idle"
    /\ op' = "dirs"
    /\ pc' = "discover"
    /\ abortSignal' = FALSE
    /\ walkRest' = walkDir(files)
    /\ directoryFiles' = <<>>
    /\ stream' = Emit(NoStream, "indexing")
    /\ pre' = CurDb
    /\ planned' = <<>>
    /\ workAfterAbort' = FALSE
    /\ UNCHANGED <<envVars, pauseToken, dbVars, stats, indexPos, results, timestamp,
                   pos, resumePc, fileVars>>

RefreshDirs ==
    /\ RefreshDirsBegins
    /\ UNCHANGED auxVars

\* The walk hands over one file: push, then the abort check, then the pause
\* check.
WalkFile ==
    /\ op = "dirs"
    /\ pc = "discover"
    /\ walkRest # <<>>
    /\ directoryFiles' = Append(directoryFiles, Head(walkRest))
    /\ walkRest' = Tail(walkRest)
    /\ IF abortSignal
       THEN /\ stream' = Emit(stream, "cancelled")
            /\ pc' = "finished"
            /\ UNCHANGED resumePc
       ELSE IF pauseToken
            THEN /\ stream' = Emit(stream, "paused")
                 /\ pc' = "paused"
                 /\ resumePc' = "discover"
            ELSE UNCHANGED <<stream, pc, resumePc>>
    /\ UNCHANGED <<envVars, pauseToken, dbVars, op, abortSignal, stats, indexPos,
                   results, timestamp, pos, fileVars, pre, planned, workAfterAbort>>
    /\ UNCHANGED auxVars

\* The walk is over: indexFiles starts with getFileStats and its first index.
WalkDone ==
    /\ op = "dirs"
    /\ pc = "discover"
    /\ walkRest = <<>>
    /\ stats' = getFileStats(files, Range(directoryFiles))
    /\ indexPos' = 1
    /\ pc' = "planYield"
    /\ UNCHANGED <<envVars, pauseToken, dbVars, op, abortSignal, walkRest,
                   directoryFiles, results, timestamp, pos, resumePc, fileVars,
                   stream, pre, planned, workAfterAbort>>
    /\ UNCHANGED auxVars

\* indexFiles yields "Planning changes for <artifact> index...".
PlanYield ==
    /\ op = "dirs"
    /\ pc = "planYield"
    /\ Check("plan")
    /\ UNCHANGED <<envVars, pauseToken, dbVars, op, abortSignal, dirVars, fileVars,
                   pre, planned, workAfterAbort>>
    /\ UNCHANGED auxVars

\* getComputeDeleteAddRemove for the index; batches only when totalOps > 0.
Plan ==
    /\ op = "dirs"
    /\ pc = "plan"
    /\ LET r == getComputeDeleteAddRemove(tag_catalog, global_cache, CurTag,
                                          stats, files)
       IN /\ results' = r
          /\ pos' = NormPos(r, 0, 1, 1)
          /\ pc' = IF totalIndexOps(r) > 0 THEN "update" ELSE "touch"
          /\ planned' = Append(planned, r)
    /\ timestamp' = clock
    /\ UNCHANGED <<envVars, pauseToken, dbVars, op, abortSignal, walkRest,
                   directoryFiles, stats, indexPos, resumePc, fileVars, stream, pre,
                   workAfterAbort>>
    /\ UNCHANGED auxVars

Advance ==
    LET n == NormPos(results, pos.curPos, pos.kind, pos.i + 1)
    IN /\ pos' = n
       /\ pc' = IF n = EndPos THEN "touch" ELSE "update"

\* ComputeItem with the callback run before the update is yielded.
ComputeItemMarksFirst ==
    /\ op = "dirs"
    /\ pc = "update"
    /\ pos.kind = 1
    /\ SetDb(indexItem(CurDb, CurTag, timestamp, CurItem(results, pos), "compute"))
    /\ Check("markCompute")
    /\ workAfterAbort' = (workAfterAbort \/ abortSignal)
    /\ UNCHANGED <<envVars, pauseToken, op, abortSignal, dirVars, fileVars, pre, planned>>
    /\ UNCHANGED auxVars

\* update(): a compute item's artifact rows are written, then the update is
\* yielded (to refreshDirs' checks), the callback comes after the yield.
ComputeItem ==
    /\ op = "dirs"
    /\ pc = "update"
    /\ pos.kind = 1
    /\ SetDb(indexWrite(CurDb, CurTag.artifactId, CurItem(results, pos), "compute"))
    /\ Check("markCompute")
    /\ workAfterAbort' = (workAfterAbort \/ abortSignal)
    /\ UNCHANGED <<envVars, pauseToken, op, abortSignal, dirVars, fileVars, pre, planned>>
    /\ UNCHANGED auxVars

\* markComplete([item], Compute) after the yield.
MarkCompute ==
    /\ op = "dirs"
    /\ pc = "markCompute"
    /\ SetDb(complete(CurDb, CurTag, timestamp, CurItem(results, pos), "compute"))
    /\ Advance
    /\ workAfterAbort' = (workAfterAbort \/ abortSignal)
    /\ UNCHANGED <<envVars, pauseToken, op, abortSignal, walkRest, directoryFiles,
                   stats, indexPos, results, timestamp, resumePc, fileVars, stream,
                   pre, planned>>
    /\ UNCHANGED auxVars

\* An addTag, removeTag or del item: the artifact's writes and the callback,
\* no update is yielded.
TagOrDelItem ==
    /\ op = "dirs"
    /\ pc = "update"
    /\ pos.kind > 1
    /\ SetDb(indexItem(CurDb, CurTag, timestamp, CurItem(results, pos),
                       KindName[pos.kind]))
    /\ Advance
    /\ workAfterAbort' = (workAfterAbort \/ abortSignal)
    /\ UNCHANGED <<envVars, pauseToken, op, abortSignal, walkRest, directoryFiles,
                   stats, indexPos, results, timestamp, resumePc, fileVars, stream,
                   pre, planned>>
    /\ UNCHANGED auxVars

\* markComplete(lastUpdated, UpdateLastUpdated), then the next index; after
\* the last one indexFiles is over and refreshDirs yields done.  A throwing
\* UPDATE is caught by refreshDirs: failed, return.
Touch ==
    /\ op = "dirs"
    /\ pc = "touch"
    /\ LET r == touchLastUpdated(CurDb, CurTag, timestamp, results.lastUpdated)
       IN /\ SetDb(r.db)
          /\ IF ~r.ok
             THEN /\ stream' = Emit(stream, "failed")
                  /\ pc' = "finished"
                  /\ UNCHANGED indexPos
             ELSE IF indexPos < Len(IndexesToBuild)
                  THEN /\ indexPos' = indexPos + 1
                       /\ pc' = "planYield"
                       /\ UNCHANGED stream
                  ELSE /\ stream' = Emit(stream, "done")
                       /\ pc' = "finished"
                       /\ UNCHANGED indexPos
    /\ UNCHANGED <<envVars, pauseToken, op, abortSignal, walkRest, directoryFiles,
                   stats, results, timestamp, pos, resumePc, fileVars, pre, planned,
                   workAfterAbort>>
    /\ UNCHANGED auxVars

\* yieldUpdateAndPause: while (paused) wait 100 ms; only the pause token ends
\* the wait.  In refreshDirs' index loop the held update is yielded next.
Resume ==
    /\ pc = "paused"
    /\ ~pauseToken
    /\ pc' = resumePc
    /\ stream' = IF op = "dirs" /\ resumePc # "discover"
                 THEN Emit(stream, "indexing") ELSE stream
    /\ UNCHANGED <<envVars, pauseToken, dbVars, op, abortSignal, dirVars, resumePc,
                   fileVars, pre, planned, workAfterAbort>>
    /\ UNCHANGED auxVars

\* ----------------------------------------------------------- refreshFiles
\* core.refreshCodebaseIndexFiles(files) -> refreshFiles(files), files not
\* empty (refreshIfNotIgnored).
RefreshFiles(S) ==
    /\ pc = "idle"
    /\ S # {}
    /\ op' = "files"
    /\ pc' = "file"
    /\ abortSignal' = FALSE
    /\ filesArg' = SeqOfPaths(S)
    /\ filePos' = 1
    /\ skipped' = FALSE
    /\ stream' = NoStream
    /\ pre' = CurDb
    /\ planned' = <<>>
    /\ workAfterAbort' = FALSE
    /\ UNCHANGED <<envVars, pauseToken, dbVars, dirVars, resumePc>>
    /\ UNCHANGED auxVars

\* One turn of the loop: the indexing update, then refreshFile(file), which
\* returns at once when the pause token is set.
FileStep ==
    /\ op = "files"
    /\ pc = "file"
    /\ filePos <= Len(filesArg)
    /\ stream' = Emit(stream, "indexing")
    /\ IF pauseToken
       THEN /\ skipped' = TRUE
            /\ UNCHANGED dbVars
       ELSE /\ SetDb(refreshFile(CurDb, filesArg[filePos], files, branch, clock))
            /\ UNCHANGED skipped
    /\ pc' = "fileAfter"
    /\ UNCHANGED <<envVars, pauseToken, op, abortSignal, dirVars, resumePc, filesArg,
                   filePos, pre, planned, workAfterAbort>>
    /\ UNCHANGED auxVars

\* ... then progress and the pause check of the loop.
FileAfter ==
    /\ op = "files"
    /\ pc = "fileAfter"
    /\ filePos' = filePos + 1
    /\ IF pauseToken
       THEN /\ stream' = Emit(stream, "paused")
            /\ pc' = "paused"
            /\ resumePc' = "file"
       ELSE /\ pc' = "file"
            /\ UNCHANGED <<stream, resumePc>>
    /\ UNCHANGED <<envVars, pauseToken, dbVars, op, abortSignal, dirVars, filesArg,
                   skipped, pre, planned, workAfterAbort>>
    /\ UNCHANGED auxVars

\* The loop is over: done.
FilesDone ==
    /\ op = "files"
    /\ pc = "file"
    /\ filePos > Len(filesArg)
    /\ stream' = Emit(stream, "done")
    /\ pc' = "finished"
    /\ UNCHANGED <<envVars, pauseToken, dbVars, op, abortSignal, dirVars, resumePc,
                   fileVars, pre, planned, workAfterAbort>>
    /\ UNCHANGED auxVars

\* The stream is consumed: core drops the controller, the next run may start.
Return ==
    /\ pc = "finished"
    /\ op' = "none"
    /\ pc' = "idle"
    /\ abortSignal' = FALSE
    /\ walkRest' = <<>>
    /\ directoryFiles' = <<>>
    /\ stats' = NoStats
    /\ indexPos' = 0
    /\ results' = EmptyResults
    /\ timestamp' = 0
    /\ pos' = EndPos
    /\ resumePc' = "idle"
    /\ filesArg' = <<>>
    /\ filePos' = 0
    /\ stream' = NoStream
    /\ pre' = NoPre
    /\ planned' = <<>>
    /\ skipped' = FALSE
    /\ workAfterAbort' = FALSE
    /\ UNCHANGED <<envVars, pauseToken, dbVars>>
    /\ UNCHANGED auxVars

\* ------------------------------------------------------------ specification
\* ----------------------------------------------------------- whole runs
\* refreshDirs([directory], signal) from its first update to its last, with
\* the pause token clear and the signal never aborted.
RefreshDirsRun ==
    /\ pc = "idle"
    /\ ~pauseToken
    /\ LET st == getFileStats(files, Range(walkDir(files)))
           r == indexFilesFrom(CurDb, 1, st, files, branch, clock, <<>>)
       IN /\ SetDb(r.db)
          /\ planned' = r.plans
          /\ stream' = Emit(Emit(NoStream, "indexing"),
                            IF r.ok THEN "done" ELSE "failed")
    /\ op' = "dirs"
    /\ pc' = "finished"
    /\ pre' = CurDb
    /\ UNCHANGED <<envVars, pauseToken, abortSignal, dirVars, resumePc, fileVars,
                   workAfterAbort>>
    /\ UNCHANGED auxVars

\* refreshFiles(files) from its first update to its last, with the pause token
\* clear.
RefreshFilesRun(S) ==
    /\ pc = "idle"
    /\ ~pauseToken
    /\ S # {}
    /\ SetDb(refreshFilesFrom(CurDb, SeqOfPaths(S), files, branch, clock))
    /\ filesArg' = SeqOfPaths(S)
    /\ filePos' = Cardinality(S) + 1
    /\ stream' = Emit(Emit(NoStream, "indexing"), "done")
    /\ op' = "files"
    /\ pc' = "finished"
    /\ pre' = CurDb
    /\ UNCHANGED <<envVars, pauseToken, abortSignal, dirVars, resumePc, skipped,
                   planned, workAfterAbort>>
    /\ UNCHANGED auxVars

\* ------------------------------------------------------------ specification
\* Spec: the workspace changes between runs; the runs are neither paused nor
\* aborted and are taken from start to end.
Next ==
    \/ \E p \in Paths, c \in Contents : WriteFile(p, c, MaxClock)
    \/ \E p \in Paths : DeleteFile(p, MaxClock)
    \/ \E p \in Paths, q \in Paths : RenameFile(p, q, MaxClock)
    \/ \E b \in Branches : SwitchBranch(b, MaxClock)
    \/ RefreshDirsRun
    \/ \E S \in SUBSET Paths : RefreshFilesRun(S)
    \/ Return

Spec == Init /\ [][Next]_vars

\* SpecCancel: directory refreshes taken step by step, paused and aborted
\* while they run; the workspace changes between runs.
NextCancel ==
    \/ \E p \in Paths, c \in Contents : WriteFile(p, c, MaxWrites)
    \/ RefreshDirs
    \/ SetPaused
    \/ Abort
    \/ WalkFile
    \/ WalkDone
    \/ PlanYield
    \/ Plan
    \/ ComputeItem
    \/ MarkCompute
    \/ TagOrDelItem
    \/ Touch
    \/ Resume
    \/ Return

SpecCancel == Init /\ [][NextCancel]_vars

\* SpecReplan: directory refreshes taken step by step and aborted while they
\* run, never paused; files are written between runs.
NextReplan ==
    \/ \E p \in 1..NumReplanPaths, c \in Contents : WriteFile(p, c, MaxReplanWrites)
    \/ RefreshDirs
    \/ Abort
    \/ WalkFile
    \/ WalkDone
    \/ PlanYield
    \/ Plan
    \/ ComputeItem
    \/ MarkCompute
    \/ TagOrDelItem
    \/ Touch
    \/ Return

SpecReplan == Init /\ [][NextReplan]_vars

\* SpecFiles: file refreshes taken step by step and paused while they run;
\* files are written and deleted between runs.
NextFiles ==
    \/ \E p \in Paths, c \in Contents : WriteFile(p, c, MaxWrites)
    \/ \E p \in Paths : DeleteFile(p, MaxWrites)
    \/ SetPaused
    \/ \E S \in SUBSET Paths : RefreshFiles(S)
    \/ FileStep
    \/ FileAfter
    \/ FilesDone
    \/ Resume
    \/ Return

SpecFiles == Init /\ [][NextFiles]_vars

\* ---------------------------------------------- refreshDirs, directories
\* refreshDirs over dirs = 1..n, the database behind it left out: the plan of
\* each artifact is an input, and so is the failure an update raises.
RdEmit(r, u) == [r EXCEPT !.n = r.n + 1, !.last = u]

\* refreshDirs(dirs): "Nothing to index" and done for no directory, else the
\* two loading updates; refreshDirs' own progress is 0 and stays 0.
DirsStart(n) ==
    /\ rd.pc = "idle"
    /\ rd' = IF n = 0
             THEN [RdEmit(rd, ProgressUpdate("done", One)) EXCEPT
                      !.pc = "finished", !.dirs = n]
             ELSE [RdEmit(RdEmit(rd, ProgressUpdate("loading", Zero)),
                          ProgressUpdate("loading", Zero)) EXCEPT
                      !.pc = "dir", !.dirs = n, !.dir = 1]
    /\ UNCHANGED notRd

\* The head of the loop over the directories: "Discovering files" with
\* refreshDirs' progress, the walk, indexFiles starts with its own progress 0.
\* After the last directory: done, progress 1.
DirsDiscover ==
    /\ rd.pc = "dir"
    /\ rd' = IF rd.dir > rd.dirs
             THEN [RdEmit(rd, ProgressUpdate("done", One)) EXCEPT !.pc = "finished"]
             ELSE [RdEmit(rd, ProgressUpdate("indexing", Zero)) EXCEPT
                      !.pc = "planYield",
                      !.discovered = @ \cup {rd.dir},
                      !.index = 1,
                      !.completedIndexCount = 0,
                      !.progress = Zero,
                      !.log = <<>>,
                      !.total = <<>>,
                      !.left = <<>>]
    /\ UNCHANGED notRd

\* indexFiles: the "Planning changes" update of the artifact.
DirsPlanYield ==
    /\ rd.pc = "planYield"
    /\ rd' = [RdEmit(rd, ProgressUpdate("indexing", rd.progress)) EXCEPT !.pc = "plan"]
    /\ UNCHANGED notRd

\* indexFiles: getComputeDeleteAddRemove; no batch when there is no operation.
DirsPlan(lens) ==
    /\ rd.pc = "plan"
    /\ LET res == PlanOfSizes(lens)
       IN rd' = [rd EXCEPT !.results = res,
                           !.completedOps = 0,
                           !.pos = NormPos(res, 0, 1, 1),
                           !.total = Append(@, totalIndexOps(res)),
                           !.left = Append(@, totalIndexOps(res)),
                           !.pc = IF totalIndexOps(res) > 0 THEN "update" ELSE "touch"]
    /\ UNCHANGED notRd

\* What the artifact does with an item, as the run records it.
LogEntry(r, what) ==
    [artifactId |-> IndexesToBuild[r.index], kind |-> KindName[r.pos.kind],
     curPos |-> r.pos.curPos, i |-> r.pos.i, what |-> what]

\* The item is complete: the next item of the batch, or the end of the batch
\* (completedOps and progress) and the next batch, or the end of the plan.
DirsAdvance(r) ==
    LET next == NormPos(r.results, r.pos.curPos, r.pos.kind, r.pos.i + 1)
        batchOver == next.curPos # r.pos.curPos \/ next = EndPos
        done == r.completedOps + totalIndexOps(batchAt(r.results, r.pos.curPos))
    IN [r EXCEPT
          !.pos = next,
          !.left[r.index] = @ - 1,
          !.completedOps = IF batchOver THEN done ELSE @,
          !.progress = IF batchOver
                       THEN progressAfterBatch(r.completedIndexCount, done,
                                               totalIndexOps(r.results))
                       ELSE @,
          !.pc = IF next = EndPos THEN "touch" ELSE "update"]

\* update(): a compute item is written, the update is yielded and passed on
\* with indexFiles' progress.
DirsComputeItem ==
    /\ rd.pc = "update"
    /\ rd.pos.kind = 1
    /\ rd' = [RdEmit(rd, ProgressUpdate("indexing", rd.progress)) EXCEPT
                 !.log = Append(@, LogEntry(rd, "write")),
                 !.pc = "markCompute"]
    /\ UNCHANGED notRd

\* update(): markComplete([item], Compute) after the yield.
DirsMarkCompute ==
    /\ rd.pc = "markCompute"
    /\ rd' = DirsAdvance([rd EXCEPT !.log = Append(@, LogEntry(rd, "complete"))])
    /\ UNCHANGED notRd

\* update(): an addTag or removeTag item is only marked complete, a del item is
\* deleted from the artifact's tables and marked complete.
DirsTagOrDelItem ==
    /\ rd.pc = "update"
    /\ rd.pos.kind > 1
    /\ LET written == IF KindName[rd.pos.kind] = "del"
                      THEN Append(rd.log, LogEntry(rd, "write")) ELSE rd.log
       IN rd' = DirsAdvance([rd EXCEPT
                                !.log = Append(written, LogEntry(rd, "complete"))])
    /\ UNCHANGED notRd

\* markComplete(lastUpdated), the next artifact; after the last artifact
\* indexFiles is over and refreshDirs goes to the next directory.
DirsTouch ==
    /\ rd.pc = "touch"
    /\ rd' = IF rd.index < Len(IndexesToBuild)
             THEN [rd EXCEPT !.completedIndexCount = @ + 1,
                             !.index = @ + 1,
                             !.log = <<>>,
                             !.pc = "planYield"]
             ELSE [rd EXCEPT !.completedIndexCount = @ + 1,
                             !.dir = @ + 1,
                             !.log = <<>>,
                             !.pc = "dir"]
    /\ UNCHANGED notRd

\* An update, the planner or the callback throws inside indexFiles: the catch
\* block of refreshDirs yields handleErrorAndGetProgressUpdate(err), or throws
\* on what that throws, and returns.
DirsCatch(err) ==
    /\ rd.pc \in {"plan", "update", "markCompute", "touch"}
    /\ LET h == handleErrorAndGetProgressUpdate(err)
       IN rd' = IF h.thrown
                THEN [rd EXCEPT !.pc = "finished", !.err = err, !.thrown = TRUE]
                ELSE [RdEmit(rd, h.update) EXCEPT
                         !.pc = "finished", !.err = err,
                         !.failed = @ \cup {rd.dir}]
    /\ UNCHANGED notRd

\* The caller has consumed the stream.
DirsReturn ==
    /\ rd.pc = "finished"
    /\ rd' = NoRd
    /\ UNCHANGED notRd

NextDirs ==
    \/ \E n \in 0..NumDirs : DirsStart(n)
    \/ DirsDiscover
    \/ DirsPlanYield
    \/ \E lens \in PlanSizes : DirsPlan(lens)
    \/ DirsComputeItem
    \/ DirsMarkCompute
    \/ DirsTagOrDelItem
    \/ DirsTouch
    \/ \E err \in Errors : DirsCatch(err)
    \/ DirsReturn

SpecDirs == Init /\ [][NextDirs]_vars

\* ------------------------------------------------------------------- core
\* The next call: calls are numbered as they come.
NextCall(r) ==
    /\ core.calls[r].pc = "none"
    /\ \A q \in Runs : q < r => core.calls[q].pc # "none"

\* refreshCodebaseIndex(paths) up to its await: the controller in place is
\* aborted, a new one takes its place.
RefreshCodebaseIndex(r) ==
    /\ NextCall(r)
    /\ core' = [core EXCEPT
                  !.aborted = IF core.indexingCancellationController # 0
                              THEN @ \cup {core.indexingCancellationController}
                              ELSE @,
                  !.indexingCancellationController = r,
                  !.calls[r] = [kind |-> "dirs", pc |-> "await", signal |-> 0]]
    /\ UNCHANGED notCore

\* refreshCodebaseIndexFiles(files) up to its await: returns when a controller
\* is in place and not aborted, else a new controller takes its place.
RefreshCodebaseIndexFiles(r) ==
    /\ NextCall(r)
    /\ core' = IF /\ core.indexingCancellationController # 0
                  /\ core.indexingCancellationController \notin core.aborted
               THEN [core EXCEPT
                       !.calls[r] = [kind |-> "files", pc |-> "returned", signal |-> 0]]
               ELSE [core EXCEPT
                       !.indexingCancellationController = r,
                       !.calls[r] = [kind |-> "files", pc |-> "await", signal |-> 0]]
    /\ UNCHANGED notCore

\* After await this.codebaseIndexerPromise: refreshDirs is called with the
\* signal of the controller in place now (reading it off undefined throws, the
\* catch block takes the call to its end); refreshFiles takes no signal.
EnterRun(r) ==
    /\ core.calls[r].pc = "await"
    /\ core' = IF core.calls[r].kind = "files"
               THEN [core EXCEPT !.calls[r].pc = "running"]
               ELSE IF core.indexingCancellationController = 0
                    THEN [core EXCEPT !.calls[r].pc = "ending"]
                    ELSE [core EXCEPT
                            !.calls[r].pc = "running",
                            !.calls[r].signal = core.indexingCancellationController]
    /\ UNCHANGED notCore

\* The loop over the updates reaches its end: the run is done, has failed, or
\* (refreshDirs) has found its signal aborted at one of its checks.
LeaveRun(r) ==
    /\ core.calls[r].pc = "running"
    /\ core' = [core EXCEPT !.calls[r].pc = "ending"]
    /\ UNCHANGED notCore

\* The end of both functions: indexingCancellationController = undefined.
EndCall(r) ==
    /\ core.calls[r].pc = "ending"
    /\ core' = [core EXCEPT !.indexingCancellationController = 0,
                            !.calls[r].pc = "over"]
    /\ UNCHANGED notCore

NextCore ==
    \/ \E r \in Runs : RefreshCodebaseIndex(r)
    \/ \E r \in Runs : RefreshCodebaseIndexFiles(r)
    \/ \E r \in Runs : EnterRun(r)
    \/ \E r \in Runs : LeaveRun(r)
    \/ \E r \in Runs : EndCall(r)

SpecCore == Init /\ [][NextCore]_vars

\* -------------------------------------------------------------- debouncer
NextRequest(k) ==
    /\ deb.promise[k] = "none"
    /\ \A j \in Requests : j < k => deb.promise[j] # "none"

\* delayAndShouldDebounce(debounceDelay): the request becomes the current one,
\* the timer set before is cleared (a no-op once it has fired), a new timer is
\* set for now + debounceDelay, the promise returned is pending.
delayAndShouldDebounce(k, debounceDelay) ==
    /\ NextRequest(k)
    /\ deb' = [deb EXCEPT
                 !.currentRequestId = k,
                 !.superseded = IF deb.debounceTimeout # 0
                                   /\ deb.timers[deb.debounceTimeout] # 0
                                THEN @ \cup {deb.debounceTimeout} ELSE @,
                 !.debounceTimeout = k,
                 !.timers = [j \in Requests |->
                               IF j = k THEN deb.now + debounceDelay
                               ELSE IF j = deb.debounceTimeout THEN 0
                               ELSE deb.timers[j]],
                 !.promise[k] = "pending"]
    /\ UNCHANGED notDeb

\* The timer of request k fires: the promise resolves with shouldDebounce, the
\* current request id is reset when the request is still the current one.
TimerFires(k) ==
    /\ deb.timers[k] # 0
    /\ deb.now >= deb.timers[k]
    /\ LET shouldDebounce == deb.currentRequestId # k
       IN deb' = [deb EXCEPT
                    !.timers[k] = 0,
                    !.currentRequestId = IF shouldDebounce THEN @ ELSE 0,
                    !.promise[k] = IF shouldDebounce THEN "true" ELSE "false"]
    /\ UNCHANGED notDeb

\* A millisecond passes; a timer that is due fires first.
Tick ==
    /\ deb.now < MaxTime
    /\ \A k \in Requests : deb.timers[k] # 0 => deb.now < deb.timers[k]
    /\ deb' = [deb EXCEPT !.now = @ + 1]
    /\ UNCHANGED notDeb

NextDebounce ==
    \/ \E k \in Requests, debounceDelay \in 1..MaxDelay :
          delayAndShouldDebounce(k, debounceDelay)
    \/ \E k \in Requests : TimerFires(k)
    \/ Tick

SpecDebounce == Init /\ [][NextDebounce]_vars

\* ------------------------------------------------ GeneratorReuseManager
\* shouldReuseExistingGenerator(prefix); an undefined pendingGeneratorPrefix
\* and an empty one are both falsy.
shouldReuseExistingGenerator(g, prefix) ==
    /\ g.currentGenerator # 0
    /\ g.pendingGeneratorPrefix # <<>>
    /\ startsWith(g.pendingGeneratorPrefix \o g.pendingCompletion, prefix)
    /\ Len(g.pendingGeneratorPrefix) <= Len(prefix)

\* _createListenableGenerator for call c: the current generator is cancelled,
\* generator c listens into pendingCompletion and becomes the current one.
createListenableGenerator(g, c, prefix) ==
    [g EXCEPT
       !.listenable = [k \in Gets |->
                         IF k = c THEN [NoListenable EXCEPT !.prefix = prefix]
                         ELSE IF k = g.currentGenerator
                              THEN [g.listenable[k] EXCEPT !.aborted = TRUE,
                                                           !.isEnded = TRUE]
                              ELSE g.listenable[k]],
       !.pendingGeneratorPrefix = prefix,
       !.pendingCompletion = <<>>,
       !.currentGenerator = c]

NextGet(c) ==
    /\ gen.gets[c].pc = "none"
    /\ \A q \in Gets : q < c => gen.gets[q].pc # "none"

\* getGenerator(prefix, newGenerator, multiline) up to its loop over the tee:
\* a new generator unless the current one is reused, then the characters typed
\* since the generator's prefix.
GetGenerator(c, prefix, multiline) ==
    /\ NextGet(c)
    /\ LET g1 == IF shouldReuseExistingGenerator(gen, prefix) THEN gen
                 ELSE createListenableGenerator(gen, c, prefix)
       IN gen' = [g1 EXCEPT
                    !.gets[c] =
                       [pc |-> "tee", prefix |-> prefix, multiline |-> multiline,
                        generator |-> g1.currentGenerator, i |-> 0,
                        typedSinceLastGenerator |->
                            slice(prefix, Len(g1.pendingGeneratorPrefix)),
                        delivered |-> <<>>,
                        prior |-> gen.currentGenerator,
                        priorPrefix |-> gen.pendingGeneratorPrefix,
                        priorCompletion |-> gen.pendingCompletion]]
    /\ UNCHANGED notGen

\* ListenableGenerator._start: the source yields a chunk, it goes to the buffer
\* and to the listener, which appends it to pendingCompletion.
SourceYields(k, chunk) ==
    /\ gen.listenable[k] # NoListenable
    /\ ~gen.listenable[k].isEnded
    /\ Len(gen.listenable[k].buffer) < MaxChunks
    /\ gen' = [gen EXCEPT !.listenable[k].buffer = Append(@, chunk),
                          !.pendingCompletion = @ \o chunk]
    /\ UNCHANGED notGen

\* ListenableGenerator._start: the source is over.
SourceEnds(k) ==
    /\ gen.listenable[k] # NoListenable
    /\ ~gen.listenable[k].isEnded
    /\ gen' = [gen EXCEPT !.listenable[k].isEnded = TRUE]
    /\ UNCHANGED notGen

\* One turn of getGenerator's loop over the tee: the next chunk of the buffer;
\* an empty chunk is passed over; the typed characters are taken off; without
\* multiline the chunk is cut at its newline and the loop is left.
teeChunk(g, c) ==
    LET get == g.gets[c]
        raw == g.listenable[get.generator].buffer[get.i + 1]
        cut == ignoreTyped(raw, get.typedSinceLastGenerator)
        newLineIndex == indexOf(cut.chunk, Newline)
    IN IF raw = <<>>
       THEN [g EXCEPT !.gets[c].i = @ + 1]
       ELSE IF newLineIndex > 0 /\ ~get.multiline
       THEN [g EXCEPT
               !.gets[c].i = @ + 1,
               !.gets[c].typedSinceLastGenerator = cut.typedSinceLastGenerator,
               !.gets[c].delivered = @ \o SubSeq(cut.chunk, 1, newLineIndex - 1),
               !.gets[c].pc = "done"]
       ELSE [g EXCEPT
               !.gets[c].i = @ + 1,
               !.gets[c].typedSinceLastGenerator = cut.typedSinceLastGenerator,
               !.gets[c].delivered = @ \o cut.chunk]

TeeChunk(c) ==
    /\ gen.gets[c].pc = "tee"
    /\ gen.gets[c].i < Len(gen.listenable[gen.gets[c].generator].buffer)
    /\ gen' = teeChunk(gen, c)
    /\ UNCHANGED notGen

\* The tee is over: the buffer is read and the generator has ended.
TeeEnds(c) ==
    /\ gen.gets[c].pc = "tee"
    /\ gen.gets[c].i = Len(gen.listenable[gen.gets[c].generator].buffer)
    /\ gen.listenable[gen.gets[c].generator].isEnded
    /\ gen' = [gen EXCEPT !.gets[c].pc = "done"]
    /\ UNCHANGED notGen

NextReuse ==
    \/ \E c \in Gets, prefix \in Prefixes, multiline \in BOOLEAN :
          GetGenerator(c, prefix, multiline)
    \/ \E k \in Gets, chunk \in Chunks : SourceYields(k, chunk)
    \/ \E k \in Gets : SourceEnds(k)
    \/ \E c \in Gets : TeeChunk(c)
    \/ \E c \in Gets : TeeEnds(c)

SpecReuse == Init /\ [][NextReuse]_vars

\* ------------------------------------------- CompletionStreamer: full stop
\* fullStop of the request of call c: the generator that is the current one
\* when it is called is cancelled; <<c, k>> is kept for every generator k
\* cancelled so.
fullStop(g, c) ==
    IF g.currentGenerator = 0 THEN g
    ELSE [g EXCEPT !.listenable[g.currentGenerator].aborted = TRUE,
                   !.listenable[g.currentGenerator].isEnded = TRUE,
                   !.fullStops = @ \cup {<<c, g.currentGenerator>>}]

\* A chunk of the tee reaches the pipeline of the request, and one of its
\* filters (stopAtLines, stopAtLinesExact, stopAtRepeatingLines,
\* stopAtSimilarLine) calls fullStop and ends the stream of the request.
PipelineFullStop(c) ==
    /\ gen.gets[c].pc = "tee"
    /\ gen.gets[c].i < Len(gen.listenable[gen.gets[c].generator].buffer)
    /\ teeChunk(gen, c).gets[c].delivered # gen.gets[c].delivered
    /\ gen' = [fullStop(teeChunk(gen, c), c) EXCEPT !.gets[c].pc = "done"]
    /\ UNCHANGED notGen

NextFullStop ==
    \/ \E c \in Gets, prefix \in Prefixes, multiline \in BOOLEAN :
          GetGenerator(c, prefix, multiline)
    \/ \E k \in Gets, chunk \in Chunks : SourceYields(k, chunk)
    \/ \E k \in Gets : SourceEnds(k)
    \/ \E c \in Gets : TeeChunk(c)
    \/ \E c \in Gets : TeeEnds(c)
    \/ \E c \in Gets : PipelineFullStop(c)

SpecFullStop == Init /\ [][NextFullStop]_vars

\* ------------------------------------------------------ CompletionStreamer
\* streamCompletionWithFilters is called, with a text of the model cut into
\* chunks, a file and its cursor, transform on or off: the token is not
\* aborted, nothing is forwarded yet.
StreamCompletionWithFilters ==
    /\ cs.pc = "none"
    /\ \E text \in ModelTexts, helper \in Helpers, withTransform \in BOOLEAN,
          slowFrom \in SlowFrom :
          \E cuts \in Cuts(text) :
             cs' = [cs EXCEPT !.pc = "streaming", !.text = text,
                              !.chunks = ChunksOf(text, cuts, 0),
                              !.helper = helper, !.transform = withTransform,
                              !.slowFrom = slowFrom]
    /\ UNCHANGED notCs

\* The token of the call is aborted.
AbortToken ==
    /\ cs.pc = "streaming"
    /\ ~cs.aborted
    /\ cs' = [cs EXCEPT !.aborted = TRUE]
    /\ UNCHANGED notCs

\* The stream is over for the caller: with transform the pipeline has read the
\* forwarded chunks to their end, without it the chunks are the output.
returned(c) ==
    [c EXCEPT
       !.pc = "done",
       !.out = IF c.transform
               THEN transform(c.forwarded, suffixOf(c.helper, 1), getStopTokens,
                              c.helper, c.slowFrom)
               ELSE [NoCs.out EXCEPT !.chars = Concat(c.forwarded),
                                     !.text = Concat(c.forwarded)]]

\* One turn of generatorWithCancellation for an update of the generator.
generatorWithoutCancellation(c) ==
    [c EXCEPT !.forwarded = Append(@, Head(c.chunks)), !.chunks = Tail(@)]

generatorWithCancellation(c) ==
    IF c.aborted THEN returned(c)
    ELSE [c EXCEPT !.forwarded = Append(@, Head(c.chunks)), !.chunks = Tail(@)]

GeneratorYields ==
    /\ cs.pc = "streaming"
    /\ cs.chunks # <<>>
    /\ cs' = generatorWithCancellation(cs)
    /\ UNCHANGED notCs

\* The generator is over, and with it generatorWithCancellation.
GeneratorEnds ==
    /\ cs.pc = "streaming"
    /\ cs.chunks = <<>>
    /\ cs' = returned(cs)
    /\ UNCHANGED notCs

NextStream ==
    \/ StreamCompletionWithFilters
    \/ AbortToken
    \/ GeneratorYields
    \/ GeneratorEnds

SpecStream == Init /\ [][NextStream]_vars

\* ------------------------------------------ AutocompleteLoggingService
\* cancelRejectionTimeout(completionId): the timeout is cleared, the outcome
\* dropped.
cancelRejectionTimeoutKeepsTimer(a, completionId) ==
    [a EXCEPT !.outcomes[completionId] = NoOutcome]

cancelRejectionTimeout(a, completionId) ==
    [a EXCEPT !.logRejectionTimeouts[completionId] = NoTimeoutSet,
              !.outcomes[completionId] = NoOutcome]

firstLine(completion) == Head(split(completion))

\* c1.endsWith(c2) || c2.endsWith(c1) || c1.startsWith(c2) || c2.startsWith(c1)
sameIntention(c1, c2) ==
    \/ endsWith(c1, c2) \/ endsWith(c2, c1)
    \/ startsWith(c1, c2) \/ startsWith(c2, c1)

\* markDisplayed(completionId, outcome), for an id not displayed before: the
\* timeout is set, the outcome kept; the timeout of the completion displayed
\* last is cancelled when it is still set and that completion is the same
\* intention, or was displayed less than SameIntentionWithin before.
MarkDisplayed(completionId, completion) ==
    /\ als.displayed[completionId] = 0
    /\ LET a1 == [als EXCEPT
                    !.outcomes[completionId] =
                        [completion |-> completion, accepted |-> "undefined"],
                    !.logRejectionTimeouts[completionId] =
                        als.now + COUNT_COMPLETION_REJECTED_AFTER,
                    !.displayed[completionId] = 1]
           previous == als.lastDisplayedCompletion
           waiting == previous.id # 0
                         /\ a1.logRejectionTimeouts[previous.id] # NoTimeoutSet
           previousOutcome == a1.outcomes[previous.id]
           c1 == IF previousOutcome # NoOutcome
                 THEN firstLine(previousOutcome.completion) ELSE <<>>
           c2 == firstLine(completion)
           a2 == IF waiting /\ previousOutcome # NoOutcome /\ sameIntention(c1, c2)
                 THEN cancelRejectionTimeout(a1, previous.id)
                 ELSE IF waiting /\ als.now - previous.displayedAt < SameIntentionWithin
                 THEN cancelRejectionTimeout(a1, previous.id)
                 ELSE a1
       IN als' = [a2 EXCEPT
                    !.lastDisplayedCompletion =
                        [id |-> completionId, displayedAt |-> als.now],
                    !.followed =
                        [id \in CompletionIds |->
                           \/ als.followed[id]
                           \/ /\ id = previous.id
                              /\ als.now - previous.displayedAt < SameIntentionWithin
                              /\ sameIntention(firstLine(als.outcomes[id].completion),
                                               c2)]]
    /\ UNCHANGED notAls

\* accept(completionId): the timeout is cleared; an outcome that is kept is
\* logged as accepted and dropped.
accept(a, completionId) ==
    [a EXCEPT
       !.logRejectionTimeouts[completionId] = NoTimeoutSet,
       !.outcomes[completionId] = NoOutcome,
       !.log = IF a.outcomes[completionId] # NoOutcome
               THEN Append(@, [id |-> completionId, accepted |-> TRUE])
               ELSE @]

Accept(completionId) ==
    /\ als' = accept(als, completionId)
    /\ UNCHANGED notAls

\* The callback of the timeout set by markDisplayed: its outcome is logged as
\* not accepted, the timeout is dropped, the outcome is kept.
RejectionTimeout(completionId) ==
    /\ als.logRejectionTimeouts[completionId] # NoTimeoutSet
    /\ als.now >= als.logRejectionTimeouts[completionId]
    /\ als' = [als EXCEPT
                 !.logRejectionTimeouts[completionId] = NoTimeoutSet,
                 !.outcomes[completionId] =
                     IF @ = NoOutcome THEN @ ELSE [@ EXCEPT !.accepted = "false"],
                 !.log = Append(@, [id |-> completionId, accepted |-> FALSE])]
    /\ UNCHANGED notAls

\* Date.now() advances.
TimePasses(d) ==
    /\ als.ticks < MaxTicks
    /\ als' = [als EXCEPT !.now = @ + d, !.ticks = @ + 1]
    /\ UNCHANGED notAls

NextLogging ==
    \/ \E completionId \in CompletionIds, completion \in Completions :
          MarkDisplayed(completionId, completion)
    \/ \E completionId \in CompletionIds : Accept(completionId)
    \/ \E completionId \in CompletionIds : RejectionTimeout(completionId)
    \/ \E d \in TimeSteps : TimePasses(d)

SpecLogging == Init /\ [][NextLogging]_vars

\* accept(completionId), the ids accepted being kept.
AcceptOf(completionId) ==
    /\ als' = [accept(als, completionId) EXCEPT !.accepts = @ \cup {completionId}]
    /\ UNCHANGED notAls

NextRejection ==
    \/ \E completionId \in CompletionIds, completion \in Completions :
          MarkDisplayed(completionId, completion)
    \/ \E completionId \in CompletionIds : AcceptOf(completionId)
    \/ \E completionId \in CompletionIds : RejectionTimeout(completionId)
    \/ \E d \in TimeSteps : TimePasses(d)

SpecRejection == Init /\ [][NextRejection]_vars

\* -------------------------------------------------- BracketMatchingService
\* handleAcceptedCompletion(completion, filepath).
HandleAcceptedCompletion(completion, filepath) ==
    /\ bm.pc = "none"
    /\ ~bm.accepted
    /\ bm' = [bm EXCEPT
                !.openingBracketsFromLastCompletion = scanBrackets(completion, <<>>),
                !.lastCompletionFile = filepath,
                !.accepted = TRUE]
    /\ UNCHANGED notBm

\* stopOnUnmatchedClosingBracket up to its loop over the stream: the stack is
\* seeded with the openers of the last completion (multiline, same file) or of
\* the line of the cursor (single line), and with those of the suffix.
StopOnUnmatchedClosingBracket ==
    /\ bm.pc = "none"
    /\ \E text \in BracketStreams, prefix \in LinePrefixes, suffix \in LineSuffixes,
          filepath \in Filepaths, multiline \in BOOLEAN :
          \E cuts \in Cuts(text) :
             LET stack0 == IF multiline
                           THEN IF bm.lastCompletionFile = filepath
                                THEN bm.openingBracketsFromLastCompletion
                                ELSE <<>>
                           ELSE scanBrackets(prefix \o suffix, <<>>)
                 stack1 == openersOfSuffix(suffix, stack0)
             IN bm' = [bm EXCEPT
                         !.lastCompletionFile =
                             IF multiline /\ bm.lastCompletionFile # filepath
                             THEN "undefined" ELSE @,
                         !.pc = "streaming", !.stream = text,
                         !.chunks = ChunksOf(text, cuts, 0),
                         !.seeded = stack1, !.stack = stack1]
    /\ UNCHANGED notBm

\* One turn of the loop over the stream: the chunk up to its first character
\* of code is yielded as it is; from there on brackets are followed, and the
\* generator returns at a closing bracket that does not match.
skipsNoClosers(b, chunk) ==
    LET r == bracketsOfChunk(chunk, 1, b.stack)
    IN IF r.stoppedAt > 0
       THEN [b EXCEPT !.yielded = @ \o SubSeq(chunk, 1, r.stoppedAt - 1),
                      !.stack = r.stack, !.chunks = <<>>, !.pc = "done"]
       ELSE [b EXCEPT !.yielded = @ \o chunk, !.stack = r.stack,
                      !.chunks = Tail(@)]

nextBracketChunk(b, chunk) ==
    LET k == IF b.seenNonWhitespaceOrClosingBracket THEN 1 ELSE searchCode(chunk)
        r == bracketsOfChunk(SubSeq(chunk, k, Len(chunk)), 1, b.stack)
    IN IF k = 0
       THEN [b EXCEPT !.yielded = @ \o chunk, !.chunks = Tail(@)]
       ELSE IF r.stoppedAt > 0
       THEN [b EXCEPT !.yielded = @ \o SubSeq(chunk, 1, k + r.stoppedAt - 2),
                      !.stack = r.stack, !.seenNonWhitespaceOrClosingBracket = TRUE,
                      !.pc = "done"]
       ELSE [b EXCEPT !.yielded = @ \o chunk, !.stack = r.stack,
                      !.seenNonWhitespaceOrClosingBracket = TRUE,
                      !.chunks = Tail(@)]

BracketChunk ==
    /\ bm.pc = "streaming"
    /\ bm.chunks # <<>>
    /\ bm' = nextBracketChunk(bm, Head(bm.chunks))
    /\ UNCHANGED notBm

\* The stream is over.
BracketStreamEnds ==
    /\ bm.pc = "streaming"
    /\ bm.chunks = <<>>
    /\ bm' = [bm EXCEPT !.pc = "done"]
    /\ UNCHANGED notBm

NextBrackets ==
    \/ \E completion \in AcceptedCompletions, filepath \in Filepaths :
          HandleAcceptedCompletion(completion, filepath)
    \/ StopOnUnmatchedClosingBracket
    \/ BracketChunk
    \/ BracketStreamEnds

SpecBrackets == Init /\ [][NextBrackets]_vars

\* ------------------------------------------------------------------ chunker
\* chunkDocument of a file whose extension is no supported language, so that
\* chunkDocumentWithoutId goes to basicChunker: nothing for a blank file.
ChunkDocument ==
    /\ ch.pc = "none"
    /\ \E contents \in FileContents, maxChunkSize \in MaxChunkSizes,
          newlineTokens \in NewlineTokens :
          ch' = [ch EXCEPT
                   !.contents = contents, !.maxChunkSize = maxChunkSize,
                   !.newlineTokens = newlineTokens,
                   !.lineTokens = IF trim(contents) = <<>> THEN <<>> ELSE split(contents),
                   !.pc = IF trim(contents) = <<>> THEN "resolving" ELSE "chunking"]
    /\ UNCHANGED notCh

\* One turn of the loop of basicChunker over the lines; the chunk it yields
\* is counted by chunkDocument, which puts its promise on the list.
basicChunkerLine(c, line) ==
    LET tokenCount == countTokens(line, c.newlineTokens)
        full == c.chunkTokens + tokenCount > c.maxChunkSize - 5
        content0 == IF full THEN <<>> ELSE c.chunkContent
        tokens0 == IF full THEN 0 ELSE c.chunkTokens
    IN [c EXCEPT
          !.chunkPromises =
              IF full
              THEN Append(@, [content |-> c.chunkContent, startLine |-> c.startLine,
                              endLine |-> c.currLine - 1])
              ELSE @,
          !.index = IF full THEN @ + 1 ELSE @,
          !.startLine = IF full THEN c.currLine ELSE @,
          !.chunkContent =
              IF tokenCount < c.maxChunkSize THEN content0 \o line \o <<Newline>>
              ELSE content0,
          !.chunkTokens =
              IF tokenCount < c.maxChunkSize THEN tokens0 + tokenCount + 1 ELSE tokens0,
          !.currLine = @ + 1]

BasicChunkerLine ==
    /\ ch.pc = "chunking"
    /\ ch.currLine < Len(ch.lineTokens)
    /\ ch' = basicChunkerLine(ch, ch.lineTokens[ch.currLine + 1])
    /\ UNCHANGED notCh

\* The lines are over: basicChunker yields what it holds.
BasicChunkerEnds ==
    /\ ch.pc = "chunking"
    /\ ch.currLine = Len(ch.lineTokens)
    /\ ch' = [ch EXCEPT
                !.chunkPromises =
                    Append(@, [content |-> ch.chunkContent, startLine |-> ch.startLine,
                               endLine |-> ch.currLine - 1]),
                !.index = @ + 1,
                !.pc = "resolving"]
    /\ UNCHANGED notCh

\* The next promise of chunkDocument: a chunk of more than maxChunkSize
\* tokens is left out. The promise reads index after its await, when the loop
\* has counted its chunk and any number of those after it.
resolveChunk(c, chunkWithoutId, index) ==
    IF countTokens(chunkWithoutId.content, c.newlineTokens) > c.maxChunkSize
    THEN [c EXCEPT !.resolved = @ + 1]
    ELSE [c EXCEPT !.resolved = @ + 1,
                   !.chunks = Append(@, [content |-> chunkWithoutId.content,
                                         startLine |-> chunkWithoutId.startLine,
                                         endLine |-> chunkWithoutId.endLine,
                                         index |-> index])]

ResolveChunk ==
    /\ ch.pc = "resolving"
    /\ ch.resolved < Len(ch.chunkPromises)
    /\ \E index \in (ch.resolved + 1)..ch.index :
          ch' = resolveChunk(ch, ch.chunkPromises[ch.resolved + 1], index)
    /\ UNCHANGED notCh

ChunkDocumentEnds ==
    /\ ch.pc = "resolving"
    /\ ch.resolved = Len(ch.chunkPromises)
    /\ ch' = [ch EXCEPT !.pc = "done"]
    /\ UNCHANGED notCh

NextChunker ==
    \/ ChunkDocument
    \/ BasicChunkerLine
    \/ BasicChunkerEnds
    \/ ResolveChunk
    \/ ChunkDocumentEnds

SpecChunker == Init /\ [][NextChunker]_vars

\* ------------------------------------------------ Core: message abort registry
\* controller.abort(): the signal is aborted once, and its listener, added by
\* addMessageAbortController(id), deletes the entry of id from the map.
abortKeepsEntry(a, id) ==
    [a EXCEPT !.aborted = @ \cup {a.messageAbortControllers[id]}]

abort(a, id) ==
    [a EXCEPT !.aborted = @ \cup {a.messageAbortControllers[id]},
              !.messageAbortControllers[id] = 0]

\* addMessageAbortController(id), called for a llm/streamChat or llm/complete
\* message: a new controller is put in the map under the id of the message.
AddMessageAbortController(id) ==
    /\ reg.made < MaxControllers
    /\ reg' = [reg EXCEPT
                !.made = @ + 1,
                !.messageAbortControllers[id] = reg.made + 1,
                !.controllerOf[id] = reg.made + 1,
                !.last = [op |-> "addMessageAbortController", id |-> id]]
    /\ UNCHANGED notReg

\* abortById(messageId), called for an abort message: the controller of the
\* id, when the map has one, is aborted.
AbortById(messageId) ==
    /\ reg' = [(IF reg.messageAbortControllers[messageId] # 0
               THEN abort(reg, messageId) ELSE reg)
              EXCEPT !.last = [op |-> "abortById", id |-> messageId]]
    /\ UNCHANGED notReg

NextAbortRegistry ==
    \/ \E id \in MessageIds : AddMessageAbortController(id)
    \/ \E messageId \in MessageIds : AbortById(messageId)

SpecAbortRegistry == Init /\ [][NextAbortRegistry]_vars

\* ---------------------------------------------------------- noDoubleNewLine
\* A stream of lines is given to noDoubleNewLine, and read by it to its end or
\* to the line it returns at.
LinesGiven ==
    /\ dn.pc = "none"
    /\ \E lineSeq \in DoubleLineStreams :
          dn' = [dn EXCEPT !.pc = "given", !.lines = lineSeq]
    /\ UNCHANGED notDn

NoDoubleNewLine ==
    /\ dn.pc = "given"
    /\ dn' = [dn EXCEPT !.pc = "done", !.out = noDoubleNewLine(dn.lines)]
    /\ UNCHANGED notDn

NextDoubleNewLine ==
    \/ LinesGiven
    \/ NoDoubleNewLine

SpecDoubleNewLine == Init /\ [][NextDoubleNewLine]_vars

\* --------------------------------------------------- shouldCompleteMultiline
\* A completion is asked for with a helper, and the decision is taken.
HelperGiven ==
    /\ ml.pc = "none"
    /\ \E helper \in MultilineHelpers :
          ml' = [ml EXCEPT !.pc = "given", !.helper = helper]
    /\ UNCHANGED notMl

ShouldCompleteMultiline ==
    /\ ml.pc = "given"
    /\ ml' = [ml EXCEPT !.pc = "done", !.multiline = shouldCompleteMultiline(ml.helper)]
    /\ UNCHANGED notMl

NextMultiline ==
    \/ HelperGiven
    \/ ShouldCompleteMultiline

SpecMultiline == Init /\ [][NextMultiline]_vars

\* ------------------------------------------------------ ListenableGenerator
\* A listener of the set is called: the promise of the tee that awaits it is
\* resolved, and the tee goes on when its turn comes.
notify(l) ==
    [l EXCEPT !.tees = [c \in Consumers |->
                          IF c \in l.listeners /\ l.tees[c].pc = "awaiting"
                          THEN [l.tees[c] EXCEPT !.pc = "resolved"]
                          ELSE l.tees[c]]]

\* The finally of _start: the generator has ended, every listener is called
\* with null.
startFinallyQuiet(l) == [l EXCEPT !.isEnded = TRUE, !.started = FALSE]

startFinally(l) == notify([l EXCEPT !.isEnded = TRUE, !.started = FALSE])

\* One turn of the loop of _start: the loop is left when the generator has
\* ended, else the value goes to the buffer and to every listener.
StartValue ==
    /\ lg.started
    /\ lg.yielded < MaxValues
    /\ lg' = IF lg.isEnded
             THEN startFinally([lg EXCEPT !.yielded = @ + 1])
             ELSE notify([lg EXCEPT !.yielded = @ + 1,
                                    !.buffer = Append(@, lg.yielded + 1)])
    /\ UNCHANGED notLg

\* The source is over, or throws: _start comes to its finally.
StartEnds ==
    /\ lg.started
    /\ lg' = startFinally(lg)
    /\ UNCHANGED notLg

\* cancel(): the controller is aborted and the generator has ended; no
\* listener is called.
CancelListenable ==
    /\ ~lg.aborted
    /\ lg' = [lg EXCEPT !.aborted = TRUE, !.isEnded = TRUE]
    /\ UNCHANGED notLg

\* A consumer begins to iterate tee().
TeeBegins(c) ==
    /\ lg.tees[c].pc = "none"
    /\ lg' = [lg EXCEPT !.tees[c].pc = "running",
                        !.tees[c].startedAt = Len(lg.buffer)]
    /\ UNCHANGED notLg

\* tee yields the next value of the buffer.
teeYieldsLatest(l, c) ==
    [l EXCEPT !.tees[c].received = Append(@, l.buffer[Len(l.buffer)]),
              !.tees[c].i = Len(l.buffer)]

teeYields(l, c) ==
    [l EXCEPT !.tees[c].received = Append(@, l.buffer[l.tees[c].i + 1]),
              !.tees[c].i = @ + 1]

TeeYields(c) ==
    /\ lg.tees[c].pc = "running"
    /\ lg.tees[c].i < Len(lg.buffer)
    /\ lg' = teeYields(lg, c)
    /\ UNCHANGED notLg

\* The buffer is read and the generator has not ended: tee adds the resolve
\* function of a new promise to the listeners and awaits the promise.
TeeAwaits(c) ==
    /\ lg.tees[c].pc = "running"
    /\ lg.tees[c].i = Len(lg.buffer)
    /\ ~lg.isEnded
    /\ lg' = [lg EXCEPT !.listeners = @ \cup {c}, !.tees[c].pc = "awaiting",
                        !.tees[c].awaited = TRUE]
    /\ UNCHANGED notLg

\* The promise is resolved: tee takes its listener out of the set and reads
\* the buffer on.
TeeResumes(c) ==
    /\ lg.tees[c].pc = "resolved"
    /\ lg' = [lg EXCEPT !.listeners = @ \ {c}, !.tees[c].pc = "running"]
    /\ UNCHANGED notLg

\* The buffer is read and the generator has ended: tee returns.
TeeReturns(c) ==
    /\ lg.tees[c].pc = "running"
    /\ lg.tees[c].i = Len(lg.buffer)
    /\ lg.isEnded
    /\ lg' = [lg EXCEPT !.tees[c].pc = "done"]
    /\ UNCHANGED notLg

NextTee ==
    \/ StartValue
    \/ StartEnds
    \/ CancelListenable
    \/ \E c \in Consumers : TeeBegins(c)
    \/ \E c \in Consumers : TeeYields(c)
    \/ \E c \in Consumers : TeeAwaits(c)
    \/ \E c \in Consumers : TeeResumes(c)
    \/ \E c \in Consumers : TeeReturns(c)

SpecTee == Init /\ [][NextTee]_vars

\* The source is pulled by _start until it is over, and it does come to an
\* end; a tee that has begun is iterated on by its consumer.
SpecTeeLive ==
    /\ SpecTee
    /\ WF_vars(StartValue \/ StartEnds)
    /\ \A c \in Consumers :
          WF_vars(TeeYields(c) \/ TeeAwaits(c) \/ TeeResumes(c) \/ TeeReturns(c))

\* ------------------------------------------------ messenger: _handleData
\* The other side sends its messages; the data comes in chunks, cut anywhere.
DataSent ==
    /\ im.pc = "none"
    /\ \E messageSeq \in MessageSeqs :
          \E cuts \in Cuts(wire(messageSeq)) :
             im' = [im EXCEPT !.pc = "receiving", !.sent = messageSeq,
                              !.chunks = ChunksOf(wire(messageSeq), cuts, 0)]
    /\ UNCHANGED notIm

\* _handleData(data): the lines of the data that are not blank; the first is
\* put after the unfinished line, the last is kept as the unfinished line when
\* the data does not end with \r\n, the others go to _handleLine. An undefined
\* unfinished line and an empty one are both falsy.
handleData(m, d) ==
    LET lines0 == SelectSeq(splitCRLF(d), NotBlank)
        lines1 == IF m.unfinishedLine # <<>>
                  THEN <<m.unfinishedLine \o Head(lines0)>> \o Tail(lines0)
                  ELSE lines0
    IN IF lines0 = <<>> THEN m
       ELSE IF ~endsWith(d, CRLF)
       THEN [m EXCEPT !.unfinishedLine = lines1[Len(lines1)],
                      !.handled = @ \o SubSeq(lines1, 1, Len(lines1) - 1)]
       ELSE [m EXCEPT !.unfinishedLine = <<>>,
                      !.handled = @ \o lines1]

HandleData ==
    /\ im.pc = "receiving"
    /\ im.chunks # <<>>
    /\ im' = [handleData(im, Head(im.chunks)) EXCEPT !.chunks = Tail(im.chunks)]
    /\ UNCHANGED notIm

NextMessenger ==
    \/ DataSent
    \/ HandleData

SpecMessenger == Init /\ [][NextMessenger]_vars

\* ------------------------------------------- refreshFiles, progress stream
\* yield of refreshFiles.
PgYield(g, u) == [g EXCEPT !.updates = Append(@, u)]

\* refreshFiles(files): for no file "Indexing Complete" (done, progress 1) is
\* yielded, and the function goes on to getWorkspaceDirs and the loop.
RefreshFilesBegins(n) ==
    /\ pg.pc = "idle"
    /\ pg' = [(IF n = 0 THEN PgYield(NoPg, ProgressUpdate("done", One)) ELSE NoPg)
                 EXCEPT !.pc = "loop", !.files = n]
    /\ UNCHANGED notPg

\* The head of a turn of the loop: the indexing update with the progress so
\* far, progressPer = 1 / files.length each.
RefreshFilesTurn ==
    /\ pg.pc = "loop"
    /\ pg.file <= pg.files
    /\ pg' = [PgYield(pg, ProgressUpdate("indexing", Fraction(pg.file - 1, pg.files)))
                 EXCEPT !.pc = "refreshFile"]
    /\ UNCHANGED notPg

\* refreshFile(file) returns: progress += progressPer, and with the pause token
\* set yieldUpdateAndPause gives the paused update.
RefreshFileReturns(paused) ==
    /\ pg.pc = "refreshFile"
    /\ pg' = [(IF paused THEN PgYield(pg, ProgressUpdate("paused", Zero)) ELSE pg)
                 EXCEPT !.pc = "loop", !.file = @ + 1]
    /\ UNCHANGED notPg

\* refreshFile(file) throws: the catch yields handleErrorAndGetProgressUpdate,
\* which throws an LLM failure on instead.
RefreshFileThrows(err) ==
    /\ pg.pc = "refreshFile"
    /\ LET h == handleErrorAndGetProgressUpdate(err)
       IN pg' = IF h.thrown
                THEN [pg EXCEPT !.pc = "finished", !.thrown = TRUE]
                ELSE [PgYield(pg, h.update) EXCEPT !.pc = "finished"]
    /\ UNCHANGED notPg

\* After the loop: "Indexing Complete", done, progress 1.
RefreshFilesComplete ==
    /\ pg.pc = "loop"
    /\ pg.file > pg.files
    /\ pg' = [PgYield(pg, ProgressUpdate("done", One)) EXCEPT !.pc = "finished"]
    /\ UNCHANGED notPg

\* The caller has read the stream to its end.
RefreshFilesRead ==
    /\ pg.pc = "finished"
    /\ pg' = NoPg
    /\ UNCHANGED notPg

NextProgress ==
    \/ \E n \in 0..MaxProgressFiles : RefreshFilesBegins(n)
    \/ RefreshFilesTurn
    \/ \E paused \in BOOLEAN : RefreshFileReturns(paused)
    \/ \E err \in Errors : RefreshFileThrows(err)
    \/ RefreshFilesComplete
    \/ RefreshFilesRead

SpecProgress == Init /\ [][NextProgress]_vars

\* ----------------------------------------- modifications during a refresh
\* refreshDirs starts; no file has been modified since its start.
RefreshDirsOfWorkspace ==
    /\ RefreshDirsBegins
    /\ cw' = [cw EXCEPT !.quiet = TRUE]
    /\ UNCHANGED <<rd, core, deb, gen, cs, als, bm, ch, reg, dn, ml, lg, im, pg>>

\* A file is written while refreshDirs walks, plans or indexes: the run goes
\* on with the stats and the hashes it has read.
ModifyWhileRefreshing(p, c, tick) ==
    /\ op = "dirs"
    /\ pc \notin {"idle", "finished"}
    /\ cw.modifications < MaxModifications
    /\ clock + tick <= MaxModifyClock
    /\ clock' = clock + tick
    /\ files' = [files EXCEPT ![p] = [content |-> c, lastModified |-> clock + tick]]
    /\ cw' = [during |-> cw.during \cup {p},
              modifications |-> cw.modifications + 1,
              quiet |-> FALSE]
    /\ UNCHANGED <<aborts, branch, pauseToken, dbVars, op, pc, abortSignal, dirVars,
                   resumePc, fileVars, stream, pre, planned, workAfterAbort>>
    /\ UNCHANGED <<rd, core, deb, gen, cs, als, bm, ch, reg, dn, ml, lg, im, pg>>

NextModify ==
    \/ \E p \in 1..NumReplanPaths, c \in Contents : WriteFile(p, c, MaxModifyClock)
    \/ RefreshDirsOfWorkspace
    \/ \E p \in 1..NumReplanPaths, c \in Contents, tick \in Ticks :
          ModifyWhileRefreshing(p, c, tick)
    \/ WalkFile
    \/ WalkDone
    \/ PlanYield
    \/ Plan
    \/ ComputeItem
    \/ MarkCompute
    \/ TagOrDelItem
    \/ Touch
    \/ Return

SpecModify == Init /\ [][NextModify]_vars

\* ------------------------------------------------------------- properties
ArtifactIds == Range(IndexesToBuild)

RowsOfPath(cat, tag, p) == {r \in getSavedItemsForTag(cat, tag) : r.path = p}

\* A refreshDirs / refreshFiles run has ended with its done update.
DirsRunDone == op = "dirs" /\ pc = "finished" /\ stream.last = "done"
FilesRunDone == op = "files" /\ pc = "finished" /\ stream.last = "done"

\* The paths the run was to bring up to date.
RefreshedPaths == IF op = "dirs" THEN Paths ELSE Range(filesArg)

\* The workspace as a run that starts now would see it.
CurrentStats == getFileStats(files, Range(walkDir(files)))

\* The step-by-step run and the whole run agree: a refreshDirs run that ends
\* with done or failed leaves the database, and has made the plans, of
\* indexFilesFrom applied to the database the run started from.
StepsAgreeWithWholeRun ==
    (op = "dirs" /\ pc = "finished" /\ stream.last \in {"done", "failed"}) =>
        LET r == indexFilesFrom(pre, 1, CurrentStats, files, branch, clock, <<>>)
        IN /\ r.db = CurDb
           /\ r.plans = planned
           /\ r.ok = (stream.last = "done")

\* C1: after any sequence of refreshDirs / refreshFiles, the last of them
\* completed, the catalog holds for every artifact's tag exactly one row per
\* refreshed file, and the row's cacheKey is the SHA-256 of the file's
\* current contents.
C1OneRowPerFile ==
    (DirsRunDone \/ FilesRunDone) =>
        \A a \in ArtifactIds, p \in RefreshedPaths :
            Exists(files[p]) =>
                \E r \in tag_catalog :
                    /\ RowsOfPath(tag_catalog, IndexTag(branch, a), p) = {r}
                    /\ r.cacheKey = calculateHash(files[p].content)

\* The tags under which a cache key appears in the tag catalog.
TagsOfKey(cat, cacheKey, a) ==
    {IndexTag(r.branch, a) : r \in {x \in cat : x.cacheKey = cacheKey /\ x.artifactId = a}}

\* C2: after completed refreshes, for every (cacheKey, artifactId) the number
\* of global_cache rows equals the number of distinct tags under which the
\* key appears in tag_catalog.
C2GlobalCacheCountsTags ==
    (DirsRunDone \/ FilesRunDone) =>
        \A a \in ArtifactIds, c \in Contents :
            Cardinality(getTagsFromGlobalCache(global_cache, calculateHash(c), a))
                = Cardinality(TagsOfKey(tag_catalog, calculateHash(c), a))

\* The catalog rows of the artifact that reference the item's content, the
\* item's own row left out.
OtherRefs(cat, tag, item) ==
    {r \in cat : /\ r.artifactId = tag.artifactId
                 /\ r.cacheKey = item.cacheKey
                 /\ ~(RowOfTag(r, tag) /\ r.path = item.path)}

\* C3: the planner classifies an added item as compute iff nothing else
\* references its content, else as addTag; a removed item as del iff the
\* removed row is the last reference to the content, else as removeTag.
C3Classification ==
    DirsRunDone =>
        \A n \in 1..Len(planned) :
            LET tag == IndexTag(branch, IndexesToBuild[n])
                refs(it) == OtherRefs(pre.tag_catalog, tag, it)
            IN /\ \A it \in Range(planned[n].compute) : refs(it) = {}
               /\ \A it \in Range(planned[n].addTag) : refs(it) # {}
               /\ \A it \in Range(planned[n].del) : refs(it) = {}
               /\ \A it \in Range(planned[n].removeTag) : refs(it) # {}

\* The only change since the last refresh: the file indexed at path p with
\* content c is now at path q.
Renamed(tag, p, q, c) ==
    LET ar == getAddRemoveForTag(pre.tag_catalog, tag, CurrentStats, files)
    IN /\ p # q
       /\ ~Exists(files[p])
       /\ files[q].content = c
       /\ ar.add = <<Item(q, calculateHash(c))>>
       /\ ar.remove = <<Item(p, calculateHash(c))>>
       /\ ar.lastUpdated = <<>>

\* C4: a file renamed without content change, then a refresh: the plan removes
\* the old path and links the new one with addTag, nothing is computed; the
\* global_cache rows of the cache key are as many as before, and so are the
\* tag_catalog rows of the tag.
C4RenameKeepsCounts ==
    DirsRunDone =>
        \A n \in 1..Len(planned), p \in Paths, q \in Paths, c \in Contents :
            LET tag == IndexTag(branch, IndexesToBuild[n])
                key == calculateHash(c)
            IN Renamed(tag, p, q, c) =>
                /\ planned[n].compute = <<>>
                /\ planned[n].addTag = <<Item(q, key)>>
                /\ planned[n].del \o planned[n].removeTag = <<Item(p, key)>>
                /\ Cardinality(getTagsFromGlobalCache(global_cache, key, tag.artifactId))
                     = Cardinality(getTagsFromGlobalCache(pre.global_cache, key,
                                                          tag.artifactId))
                /\ Cardinality(getSavedItemsForTag(tag_catalog, tag))
                     = Cardinality(getSavedItemsForTag(pre.tag_catalog, tag))

\* C5: once a refresh has been applied to its end, planning again for the same
\* tag on the unchanged workspace yields empty compute, del, addTag and
\* removeTag lists.
C5ReplanIsEmpty ==
    DirsRunDone =>
        \A a \in ArtifactIds :
            totalIndexOps(getComputeDeleteAddRemove(tag_catalog, global_cache,
                              IndexTag(branch, a), CurrentStats, files)) = 0

\* C6: after completed refreshes, for every tag_catalog row of the full-text
\* artifact the full-text index still holds entries for the row's content.
C6DataOutlivesReferences ==
    (DirsRunDone \/ FilesRunDone) =>
        \A r \in tag_catalog :
            r.artifactId = "sqliteFts" =>
                \E it \in fts_metadata : it.cacheKey = r.cacheKey

\* C7: refreshFiles of a path that was indexed and whose file is gone removes
\* every catalog row of the path under each artifact's tag.
C7DeletedPathRemoved ==
    FilesRunDone =>
        \A p \in Range(filesArg), a \in ArtifactIds :
            ~Exists(files[p]) =>
                RowsOfPath(tag_catalog, IndexTag(branch, a), p) = {}

\* A refreshDirs run has ended with its cancelled update.
CancelledRun == op = "dirs" /\ pc = "finished" /\ stream.last = "cancelled"

\* C8 as stated: the signal aborted while refreshDirs walks or indexes, the
\* stream holds exactly one cancelled update and it is the last one.
C8AbortAlwaysCancels ==
    (op = "dirs" /\ pc = "finished" /\ abortSignal) =>
        (stream.cancelled = 1 /\ stream.last = "cancelled")

\* The run stands at one of refreshDirs' abort checks: after a file of the
\* walk, or at an update of indexFiles.
AtCheck ==
    /\ op = "dirs"
    /\ \/ pc = "discover" /\ walkRest # <<>>
       \/ pc = "planYield"
       \/ pc = "update" /\ pos.kind = 1

RunMoves == <<pc, walkRest, stream>>' # <<pc, walkRest, stream>>

\* C8, amended: the abort check that finds the signal aborted emits the cancelled
\* update and ends the run; the stream never holds more than one cancelled
\* update, and the cancelled update is its last.
C8ObservedAbortCancels ==
    /\ [](/\ stream.cancelled <= 1
          /\ stream.cancelled = 1 => (stream.last = "cancelled" /\ pc = "finished"))
    /\ [][(AtCheck /\ abortSignal /\ RunMoves) =>
              (stream' = Emit(stream, "cancelled") /\ pc' = "finished")]_vars

\* The abort was observed by a check of the index loop.
C8CancelledWhileIndexing ==
    CancelledRun /\ abortSignal /\ indexPos >= 1 /\ stream.cancelled = 1

\* C9 as stated: no item is computed or marked complete after the abort
\* signal.
C9NoWorkAfterAbort == ~workAfterAbort

\* The items of the plan from position ps on, in the order they are taken.
RECURSIVE PendingFrom(_, _)
PendingFrom(res, ps) ==
    IF ps = EndPos THEN {}
    ELSE {[kind |-> KindName[ps.kind], item |-> CurItem(res, ps)]}
             \cup PendingFrom(res, NormPos(res, ps.curPos, ps.kind, ps.i + 1))

\* C9, amended: once a check has observed the abort, neither the item whose
\* update was being yielded nor any later item of the plan is marked complete
\* (no row of theirs is added to or removed from the catalog), and nothing is
\* written after the cancelled update.
C9NothingCompletedOnceObserved ==
    /\ [](CancelledRun /\ indexPos >= 1 =>
            \A e \in PendingFrom(results, pos) :
                IF e.kind \in {"compute", "addTag"}
                THEN CatalogRow(CurTag, e.item.path, e.item.cacheKey, timestamp)
                         \notin (tag_catalog \ pre.tag_catalog)
                ELSE \E r \in RowsOfPath(tag_catalog, CurTag, e.item.path) :
                         r.cacheKey = e.item.cacheKey)
    /\ [][CancelledRun => UNCHANGED dbVars]_vars

\* Cancelled in the middle of an index: items completed, items left.
C9CancelledMidIndex ==
    /\ CancelledRun
    /\ indexPos >= 1
    /\ tag_catalog # pre.tag_catalog
    /\ PendingFrom(results, pos) # {}

\* A step of the refreshDirs run.
RunStep ==
    \/ WalkFile
    \/ WalkDone
    \/ PlanYield
    \/ Plan
    \/ ComputeItem
    \/ MarkCompute
    \/ TagOrDelItem
    \/ Touch
    \/ Resume

\* C10: while refreshDirs waits on the set pause token, the signal once
\* aborted, the run can go on to the cancelled update and its end without the
\* pause token being cleared.
C10PauseHonoursAbort ==
    (op = "dirs" /\ pc = "paused" /\ pauseToken /\ abortSignal) =>
        ENABLED (RunStep /\ stream'.last = "cancelled" /\ pc' = "finished")

\* ------------------------------------------------- failures and progress
StructuralFailures ==
    {"vectorLength", "vectorLengthOfLetters", "constraint", "generic",
     "corruption", "io", "full"}

\* C11: when an update throws while refreshDirs indexes one of several
\* directories, an LLM failure is thrown on to the caller without a failed
\* update; any other failure gives one failed update for that directory and the
\* remaining directories are still indexed.
C11FailureContinues ==
    rd.pc = "finished" /\ rd.err # NoError =>
        IF rd.err.isError /\ rd.err.rootIsLLM
        THEN rd.thrown /\ rd.failed = {} /\ rd.last.status # "failed"
        ELSE /\ ~rd.thrown
             /\ Cardinality(rd.failed) = 1
             /\ rd.discovered = 1..rd.dirs

\* C12: a failed update carries shouldClearIndexes exactly when the failure is
\* a structural one (vector-length mismatch, constraint, corrupt, I/O, full,
\* generic storage error); a busy database never sets it.
C12ClearIffStructural ==
    rd.last.status = "failed" =>
        /\ rd.last.shouldClearIndexes <=>
              (rd.err.isError /\ rd.err.failure \in StructuralFailures)
        /\ rd.err.failure = "busy" => ~rd.last.shouldClearIndexes

\* C13: within one refreshDirs call the progress of successive updates never
\* decreases and lies in [0, 1]; the first update and the updates of a failure,
\* a pause or a cancellation are excepted.
C13ProgressNeverDecreases ==
    [][rd'.n > rd.n /\ rd.n > 0
          /\ rd'.last.status \notin {"failed", "paused", "cancelled"}
       => /\ FractionLeq(rd.last.progress, rd'.last.progress)
          /\ FractionLeq(Zero, rd'.last.progress)
          /\ FractionLeq(rd'.last.progress, One)]_vars

\* The same within a call for one directory.
ProgressNeverDecreasesInADirectory ==
    [][rd'.n > rd.n /\ rd.n > 0 /\ rd.dirs = 1
          /\ rd'.last.status \notin {"failed", "paused", "cancelled"}
       => /\ FractionLeq(rd.last.progress, rd'.last.progress)
          /\ FractionLeq(Zero, rd'.last.progress)
          /\ FractionLeq(rd'.last.progress, One)]_vars

\* The busy half of C12.
BusyNeverClears ==
    rd.last.status = "failed" /\ rd.err.failure = "busy" => ~rd.last.shouldClearIndexes

\* ------------------------------------------------ order of the artifacts
\* C14: within one refresh of a directory the artifacts are updated one after
\* another in the declared order, the chunk artifact first: whenever an
\* artifact after the first plans, writes or completes an item, every artifact
\* before it has been planned and has no item of its plan left to process.
C14ArtifactsInDeclaredOrder ==
    /\ IndexesToBuild[1] = "chunks"
    /\ rd.pc \in {"planYield", "plan", "update", "markCompute", "touch"} =>
          /\ Len(rd.left) \in {rd.index - 1, rd.index}
          /\ \A k \in 1..(rd.index - 1) : rd.left[k] = 0
          /\ \A j \in 1..Len(rd.log) : rd.log[j].artifactId = IndexesToBuild[rd.index]

\* The full-text artifact at work on an item after a chunk plan of more than
\* one batch.
C14FullTextAfterChunkBatches ==
    /\ rd.index = 2
    /\ rd.log # <<>>
    /\ rd.log[1].artifactId = "sqliteFts"
    /\ rd.total[1] > filesPerBatch

\* The rank of a kind of operation in the order compute, add_tag, remove_tag,
\* del.
KindRank == [compute |-> 1, addTag |-> 2, removeTag |-> 3, del |-> 4]

\* The completion of an item comes right after the item's write (compute and
\* del write; add_tag and remove_tag items have no write).
CompletionFollowsWrite(log) ==
    \A j \in 1..Len(log) :
        /\ log[j].what = "complete" /\ log[j].kind \in {"compute", "del"} =>
              /\ j > 1
              /\ log[j - 1] = [log[j] EXCEPT !.what = "write"]
        /\ log[j].what = "write" => log[j].kind \in {"compute", "del"}

\* C15 as claimed: over all batches of one artifact's plan every compute comes
\* before any add_tag, every add_tag before any remove_tag, every remove_tag
\* before any del, and an item is completed only after its writes.
C15KindOrderOverAllBatches ==
    /\ \A i, j \in 1..Len(rd.log) :
          i < j => KindRank[rd.log[i].kind] <= KindRank[rd.log[j].kind]
    /\ CompletionFollowsWrite(rd.log)

\* C15, amended: the batches of the plan are taken one after another (each with
\* up to filesPerBatch items of every kind), the order compute, add_tag,
\* remove_tag, del holds within each batch, and an item is completed only after
\* its writes.
C15KindOrderWithinBatch ==
    /\ \A i, j \in 1..Len(rd.log) :
          i < j =>
             /\ rd.log[i].curPos <= rd.log[j].curPos
             /\ rd.log[i].curPos = rd.log[j].curPos =>
                   KindRank[rd.log[i].kind] <= KindRank[rd.log[j].kind]
    /\ CompletionFollowsWrite(rd.log)

\* A plan of two batches at its end, with a del in the first batch and a
\* compute in the second.
C15DelBeforeLaterCompute ==
    /\ rd.pc = "touch"
    /\ \E i, j \in 1..Len(rd.log) :
          /\ i < j
          /\ rd.log[i].kind = "del" /\ rd.log[i].what = "complete"
          /\ rd.log[j].kind = "compute" /\ rd.log[j].what = "complete"

\* ------------------------------------------------------- refreshFiles frame
\* The rows in which two tables differ.
Changed(before, after) == (before \ after) \cup (after \ before)

\* The cache keys of the given paths: those of their catalog rows before the
\* run and those of their present contents.
KeysOfPaths(cat, S) ==
    {r.cacheKey : r \in {x \in cat : x.path \in S}}
        \cup {calculateHash(files[p].content) : p \in {q \in S : Exists(files[q])}}

\* The database refreshFiles has reached before its k-th file.
DbBeforeFile(k) ==
    refreshFilesFrom(pre, SubSeq(filesArg, 1, k - 1), files, branch, clock)

\* The plan of artifact n for one file on the given database, filtered to the
\* file: its four lists of operations and its lastUpdated list.
FilteredPlan(db, n, file) ==
    LET st == getFileStats(files, {file})
    IN singleFileIndexOps(
           getComputeDeleteAddRemove(db.tag_catalog, db.global_cache,
                                     IndexTag(branch, IndexesToBuild[n]), st, files),
           FirstKey(st))

PlanIsEmpty(res) ==
    /\ res.compute = <<>> /\ res.del = <<>> /\ res.addTag = <<>>
    /\ res.removeTag = <<>> /\ res.lastUpdated = <<>>

CallbackItems == {Item(p, calculateHash(c)) : p \in Paths, c \in Contents}
CallbackTags == {IndexTag(b, a) : b \in Branches, a \in ArtifactIds}

\* C17: the completion callback invoked for UpdateLastUpdated or for
\* UpdateNewVersion neither inserts into nor deletes from the global cache (and
\* writes no artifact table); invoked for UpdateOldVersion, once or twice, it
\* changes nothing at all.
C17CallbackKeepsGlobalCache ==
    \A tag \in CallbackTags, item \in CallbackItems :
        /\ \A resultType \in {"updateLastUpdated", "updateNewVersion"} :
              LET after == complete(CurDb, tag, clock, item, resultType)
              IN /\ after.global_cache = global_cache
                 /\ after.chunks = chunks
                 /\ after.fts_metadata = fts_metadata
        /\ complete(CurDb, tag, clock, item, "updateOldVersion") = CurDb
        /\ complete(complete(CurDb, tag, clock, item, "updateOldVersion"),
                    tag, clock, item, "updateOldVersion") = CurDb

\* A run whose callback for UpdateLastUpdated rewrote a catalog row, the global
\* cache as before.
C17TouchedRow ==
    /\ DirsRunDone
    /\ \E n \in 1..Len(planned) : planned[n].lastUpdated # <<>>
    /\ tag_catalog # pre.tag_catalog
    /\ global_cache = pre.global_cache

\* ----------------------------------------------------- one run at a time
\* The calls whose run is executing with a controller of their own that has
\* not been aborted.
UnabortedRuns ==
    {r \in Runs : core.calls[r].pc = "running" /\ r \notin core.aborted}

\* C18: the runs the core starts are never parallel: at most one run whose
\* controller has not been aborted is executing.
C18OneUnabortedRun == Cardinality(UnabortedRuns) <= 1

\* ------------------------------------------------------------ debouncing
\* No timer is set: nothing is left that could resolve a promise.
NoTimerSet == \A k \in Requests : deb.timers[k] = 0

\* C19: every request of a burst resolves: once no timer is left, the promise
\* of every request made has resolved, with true (debounced) for a request
\* that was followed by another within its delay and with false (proceed) for
\* the others, the most recent of each burst.
C19EveryRequestResolves ==
    NoTimerSet =>
        \A k \in Requests :
            deb.promise[k] # "none" =>
                deb.promise[k] = IF k \in deb.superseded THEN "true" ELSE "false"

\* The most recent request of a burst proceeds, and no request proceeds that
\* was followed by another within its delay.
LatestProceeds ==
    /\ NoTimerSet =>
          \A k \in Requests :
              deb.promise[k] # "none" /\ k \notin deb.superseded =>
                  deb.promise[k] = "false"
    /\ \A k \in deb.superseded : deb.promise[k] # "false"

\* ------------------------------------------------------ generator reuse
\* The condition of reuse as claimed, on what call c found: a prior generator
\* whose prefix + produced so far starts with the new prefix, the new prefix at
\* least as long as the prior one.
ReuseClaimed(get) ==
    /\ get.prior # 0
    /\ startsWith(get.priorPrefix \o get.priorCompletion, get.prefix)
    /\ Len(get.prefix) >= Len(get.priorPrefix)

\* C20: generator reuse is transparent.  When the condition holds the call
\* tees the prior generator, and once the tee is over it has received the
\* prior generator's output less the characters typed since: new prefix +
\* delivered = prior prefix + output.  Otherwise the prior generator is
\* cancelled and the call reads a new generator.
C20ReuseIsTransparent ==
    \A c \in Gets :
        LET get == gen.gets[c]
        IN get.pc # "none" =>
              IF ReuseClaimed(get)
              THEN /\ get.generator = get.prior
                   /\ get.pc = "done" /\ gen.listenable[get.generator].isEnded =>
                         get.prefix \o get.delivered
                            = get.priorPrefix
                                 \o Concat(gen.listenable[get.generator].buffer)
              ELSE /\ get.generator = c
                   /\ get.prior # 0 => gen.listenable[get.prior].aborted

\* The same for prior prefixes that are not empty, the output cut at its first
\* newline for a call without multiline.
UpToNewline(str) ==
    IF indexOf(str, Newline) > 0 THEN SubSeq(str, 1, indexOf(str, Newline) - 1) ELSE str

ReuseOfNonEmptyPrefix ==
    \A c \in Gets :
        LET get == gen.gets[c]
            output == slice(get.priorPrefix
                               \o Concat(gen.listenable[get.generator].buffer),
                            Len(get.prefix))
        IN get.pc # "none" =>
              IF ReuseClaimed(get) /\ get.priorPrefix # <<>>
              THEN /\ get.generator = get.prior
                   /\ get.pc = "done" /\ gen.listenable[get.generator].isEnded =>
                         get.delivered
                            = IF get.multiline THEN output ELSE UpToNewline(output)
              ELSE /\ get.generator = c
                   /\ get.prior # 0 => gen.listenable[get.prior].aborted

Filtered == cs.pc = "done" /\ cs.transform /\ ~cs.aborted

StopTokensOfPipeline == getStopTokens \o STOP_AT_PATTERNS

StopTokenAt(text, i) ==
    \E k \in 1..Len(StopTokensOfPipeline) :
        startsWith(slice(text, i), StopTokensOfPipeline[k])

HasStopToken(text) == \E i \in 0..Len(text) : StopTokenAt(text, i)

\* The text before the first stop token.
BeforeStopToken(text) ==
    LET i == CHOOSE i \in 0..Len(text) :
                 StopTokenAt(text, i) /\ \A q \in 0..(i - 1) : ~StopTokenAt(text, q)
    IN SubSeq(text, 1, i)

\* C24: when the model's stream contains a stop token, only text that came
\* before the token is emitted, however the stream is cut into chunks: what
\* leaves the character stage, and so the output, is a prefix of the text
\* before the first stop token.
C24StopsAtStopToken ==
    Filtered /\ HasStopToken(cs.text) =>
        /\ startsWith(BeforeStopToken(cs.text), cs.out.chars)
        /\ startsWith(BeforeStopToken(cs.text), cs.out.text)

\* The first line of the file below the cursor that is not blank is
\* "return result;" and the model streams "doThing();", then "return result;",
\* then more.
SimilarLineCase ==
    /\ Filtered
    /\ getLineBelowCursor(cs.helper) = RETURN_RESULT
    /\ startsWith(cs.text, join(<<DO_THING, RETURN_RESULT, Blank>>))

\* C25 as claimed: in that case the output is "doThing();" and a newline, and
\* it is the similar-line detector that ends the stream.
C25EndsAtSimilarLine ==
    SimilarLineCase =>
        /\ cs.out.text = DO_THING \o <<Newline>>
        /\ cs.out.similar

\* C25: in that case the output is "doThing();", with no newline after it: the
\* line that equals the line below the cursor and all that follows are never
\* emitted.  The stream is ended by the exact-line detector, or before it by
\* stopAtStartOf when the model goes on as the suffix does; the similar-line
\* detector never ends it.
C25EndsAtLineBelowCursor ==
    SimilarLineCase =>
        /\ cs.out.text = DO_THING
        /\ cs.out.exact \/ cs.out.atStartOf
        /\ ~cs.out.similar

\* Both ways the stream of that case ends have happened in one run or another:
\* here, by the exact-line detector with the token cut off in two chunks.
C25EndedByExactLine ==
    /\ SimilarLineCase
    /\ cs.out.exact
    /\ Len(cs.forwarded) = 2
    /\ cs.out.text = DO_THING

WrapperMarkers ==
    {<<"<", "C", "O", "M", "P", "L", "E", "T", "I", "O", "N", ">">>,
     <<"[", "C", "O", "D", "E", "]">>,
     <<"<", "S", "T", "A", "R", "T", " ", "E", "D", "I", "T", "I", "N", "G", " ",
       "H", "E", "R", "E", ">">>,
     <<"{", "{", "F", "I", "L", "L", "_", "H", "E", "R", "E", "}", "}">>,
     <<"<", "/", "S", "T", "A", "R", "T", " ", "E", "D", "I", "T", "I", "N", "G", " ",
       "H", "E", "R", "E", ">">>}

\* C27: no line the pipeline emits starts with a wrapper marker.
C27NoWrapperMarker ==
    Filtered =>
        \A i \in 1..Len(cs.out.lines) :
            \A marker \in WrapperMarkers : ~startsWith(cs.out.lines[i], marker)

IsBlank(line) == trim(line) = <<>>

ConsecutiveBlanks(lineSeq) ==
    \E i \in 1..(Len(lineSeq) - 1) : IsBlank(lineSeq[i]) /\ IsBlank(lineSeq[i + 1])

\* C28: the pipeline never emits two consecutive blank lines, whether the
\* stream was read to its end or returned on its token.
C28NoTwoBlankLines ==
    cs.pc = "done" /\ cs.transform => ~ConsecutiveBlanks(cs.out.lines)

\* The model streamed two blank lines after a line of code, and the stream was
\* ended at the first of them.
C28EndedAtBlankLine ==
    /\ Filtered
    /\ cs.text = join(<<Code, Blank, Blank>>)
    /\ cs.out.double
    /\ cs.out.lines = <<Code>>

\* ------------------------------------------------- outcomes of completions
LoggedAs(completionId, accepted) ==
    \E i \in 1..Len(als.log) :
        als.log[i].id = completionId /\ als.log[i].accepted = accepted

TimesLogged(completionId) ==
    Cardinality({i \in 1..Len(als.log) : als.log[i].id = completionId})

\* C22: whatever the order of markDisplayed, accept and the timer, a
\* completion is displayed at most once and then logged at most once, as
\* accepted or as rejected: never as both, never more than once.
C22LoggedAtMostOnce ==
    \A completionId \in CompletionIds :
        /\ als.displayed[completionId] <= 1
        /\ ~(LoggedAs(completionId, TRUE) /\ LoggedAs(completionId, FALSE))
        /\ TimesLogged(completionId) <= 1

\* C23: when a second completion is displayed less than 500 ms after the one
\* before it and the first lines of the two begin or end with one another, the
\* timeout of the one before is cancelled: it is not set any more, and that
\* completion is never logged as rejected.
C23SameIntentionNeverRejected ==
    \A completionId \in CompletionIds :
        als.followed[completionId] =>
            /\ als.logRejectionTimeouts[completionId] = NoTimeoutSet
            /\ ~LoggedAs(completionId, FALSE)

\* A completion followed in that way, the time its timeout was due at gone by.
C23FollowedAndOverdue ==
    \E completionId \in CompletionIds :
        /\ als.followed[completionId]
        /\ als.now >= COUNT_COMPLETION_REJECTED_AFTER + SameIntentionWithin
        /\ ~LoggedAs(completionId, FALSE)
        /\ als.log # <<>>

\* --------------------------------------------------------- bracket matching
\* The place of the first closing bracket of str, from place i on, that finds
\* the stack empty or another opener than its own on top of it; 0 when every
\* closing bracket is matched.
RECURSIVE FirstUnmatched(_, _, _)
FirstUnmatched(str, i, stack) ==
    IF i > Len(str) THEN 0
    ELSE IF str[i] \in Openers THEN FirstUnmatched(str, i + 1, Append(stack, str[i]))
    ELSE IF str[i] \in Closers
    THEN IF stack # <<>> /\ BRACKETS[top(stack)] = str[i]
         THEN FirstUnmatched(str, i + 1, pop(stack))
         ELSE i
    ELSE FirstUnmatched(str, i + 1, stack)

\* Code whose brackets match one another.
Balanced(str) ==
    /\ FirstUnmatched(str, 1, <<>>) = 0
    /\ scanBrackets(str, <<>>) = <<>>

\* The characters the stream begins with that are whitespace or closing
\* brackets.
Leading(str) == IF searchCode(str) = 0 THEN Len(str) ELSE searchCode(str) - 1

\* C26 as claimed: a balanced stream is emitted unchanged, however it is cut
\* into chunks; a stream with a closing bracket that is unmatched relative to
\* the seeded stack is emitted up to the character before that bracket, and
\* nothing after it.
C26EndsAtUnmatchedCloser ==
    bm.pc = "done" =>
        /\ Balanced(bm.stream) => bm.yielded = bm.stream
        /\ FirstUnmatched(bm.stream, 1, bm.seeded) > 0 =>
              bm.yielded
                 = SubSeq(bm.stream, 1, FirstUnmatched(bm.stream, 1, bm.seeded) - 1)

\* C26: a balanced stream is emitted unchanged, however it is cut into chunks.
\* The whitespace and closing brackets a stream begins with are emitted as they
\* are and leave the stack alone; when what follows them has a closing bracket
\* that is unmatched relative to the seeded stack, the output ends at the
\* character before that bracket, and otherwise it is the whole stream.
C26EndsAtUnmatchedCloserOfCode ==
    bm.pc = "done" =>
        LET rest == slice(bm.stream, Leading(bm.stream))
            u == FirstUnmatched(rest, 1, bm.seeded)
        IN /\ Balanced(bm.stream) => bm.yielded = bm.stream
           /\ u > 0 => bm.yielded = SubSeq(bm.stream, 1, Leading(bm.stream) + u - 1)
           /\ u = 0 => bm.yielded = bm.stream

\* A stream that began with a closing bracket, emitted, and was ended at a
\* later closing bracket that had no opener, the two in different chunks.
C26LeadingCloserThenUnmatched ==
    /\ bm.pc = "done"
    /\ bm.stream = <<")", "a", ")", "a">>
    /\ bm.seeded = <<>>
    /\ bm.yielded = <<")", "a">>
    /\ bm.chunks # <<>>

\* ------------------------------------------------------------------ chunker
\* C29: every chunk the chunker emits for a file has no more than
\* maxChunkSize tokens, begins at a line that is not after the line it ends
\* at, and has both lines among the lines of the file, 0 to line count - 1;
\* the basic mode included, also when the first line is over the limit.
C29ChunksWithinFile ==
    \A i \in 1..Len(ch.chunks) :
        LET chunk == ch.chunks[i]
            line_count == Len(split(ch.contents))
        IN /\ countTokens(chunk.content, ch.newlineTokens) <= ch.maxChunkSize
           /\ chunk.startLine <= chunk.endLine
           /\ chunk.startLine \in 0..(line_count - 1)
           /\ chunk.endLine \in 0..(line_count - 1)

\* ----------------------------------------------------------- abort registry
\* The ids the registry holds, and the ids that were registered and whose
\* token has not been signalled.
Registered == {id \in MessageIds : reg.messageAbortControllers[id] # 0}
Unsignalled ==
    {id \in MessageIds : reg.controllerOf[id] # 0 /\ reg.controllerOf[id] \notin reg.aborted}

\* C30: the abort registry holds exactly the registered message ids whose
\* token has not been signalled: registering an id installs a token for it,
\* signalling that token removes the entry of the id, and aborting an id that
\* is not registered has no effect.
C30RegistryHoldsUnsignalled ==
    /\ [](/\ Registered = Unsignalled
          /\ \A id \in Registered : reg.messageAbortControllers[id] = reg.controllerOf[id])
    /\ [][/\ reg'.last.op = "addMessageAbortController"
             => /\ reg'.messageAbortControllers[reg'.last.id] \notin
                       {0} \cup reg'.aborted
                       \cup {reg.messageAbortControllers[id] : id \in MessageIds}
                /\ \A id \in MessageIds \ {reg'.last.id} :
                      reg'.messageAbortControllers[id] = reg.messageAbortControllers[id]
          /\ reg'.last.op = "abortById"
             => /\ reg'.messageAbortControllers[reg'.last.id] = 0
                /\ \A id \in MessageIds \ {reg'.last.id} :
                      reg'.messageAbortControllers[id] = reg.messageAbortControllers[id]
          /\ (reg'.last.op = "abortById" /\ reg.messageAbortControllers[reg'.last.id] = 0)
             => /\ reg'.messageAbortControllers = reg.messageAbortControllers
                /\ reg'.aborted = reg.aborted]_vars

\* An id was registered and aborted, another is registered still, and the
\* last call aborted an id that has no entry.
C30AbortedAndUnregistered ==
    /\ reg.last.op = "abortById"
    /\ reg.controllerOf[reg.last.id] = 0
    /\ \E id \in MessageIds : reg.controllerOf[id] \in reg.aborted
    /\ Registered # {}

\* ---------------------------------------------------------- noDoubleNewLine
\* The places of the blank lines of a stream, and the place of the second.
BlankPlaces(lineSeq) == {i \in 1..Len(lineSeq) : IsBlank(lineSeq[i])}
SecondBlank(lineSeq) ==
    CHOOSE i \in BlankPlaces(lineSeq) :
        Cardinality({q \in BlankPlaces(lineSeq) : q < i}) = 1

\* C33: noDoubleNewLine lets the first blank line through and ends the stream
\* at the second blank line: it yields the lines before the second blank line,
\* and all of them when fewer than two are blank; for a, "", b, "", c it
\* yields a, "", b.
C33EndsAtSecondBlankLine ==
    dn.pc = "done" =>
        IF Cardinality(BlankPlaces(dn.lines)) >= 2
        THEN /\ dn.out.stopped
             /\ dn.out.lines = SubSeq(dn.lines, 1, SecondBlank(dn.lines) - 1)
        ELSE dn.out.lines = dn.lines

\* --------------------------------------------------- shouldCompleteMultiline
\* The line of the cursor, as far as it is before the cursor, begins a single
\* line comment of the language.
CursorLineBeginsComment(helper) ==
    LET lineSeq == split(helper.fullPrefix)
        line == lineSeq[Len(lineSeq)]
        marker == helper.lang.singleLineComment
    IN /\ marker # <<>>
       /\ \E n \in 0..Len(line) :
             /\ \A i \in 1..n : line[i] \in Whitespace
             /\ startsWith(slice(line, n), marker)

\* C31: the decision is single line whenever the selected completion info is
\* present, whenever the line of the cursor begins a single line comment, or
\* when the configuration forces it; only otherwise does the language decide.
C31SingleLineWhenForced ==
    ml.pc = "done" =>
        IF \/ ml.helper.input.selectedCompletionInfo
           \/ CursorLineBeginsComment(ml.helper)
           \/ ml.helper.options.multilineCompletions = "never"
        THEN ~ml.multiline
        ELSE ml.helper.options.multilineCompletions = "auto" =>
                ml.multiline = (ml.helper.lang.useMultiline # "false")

\* ------------------------------------------------------ ListenableGenerator
\* C32: every consumer of tee(), whether it begins before, during or after the
\* source yields its values, and while other listeners are added and removed,
\* receives exactly the values the source has produced, in their order, none
\* lost and none twice: what it has received is always the beginning of the
\* buffer, and all of it when its tee returns.
C32TeeReceivesEveryValue ==
    \A c \in Consumers :
        /\ lg.tees[c].received = SubSeq(lg.buffer, 1, lg.tees[c].i)
        /\ lg.tees[c].pc = "done" => lg.tees[c].received = lg.buffer
        /\ ~lg.aborted => lg.buffer = [k \in 1..lg.yielded |-> k]

\* Three tees have returned with every value of the source: one begun before
\* the first value, one between two values, one after the last; one of them
\* awaited a value.
C32BeforeDuringAfter ==
    /\ ~lg.aborted
    /\ lg.yielded = MaxValues
    /\ \A c \in Consumers :
          lg.tees[c].pc = "done" /\ lg.tees[c].received = [k \in 1..MaxValues |-> k]
    /\ \E c \in Consumers : lg.tees[c].startedAt = 0 /\ lg.tees[c].awaited
    /\ \E c \in Consumers : lg.tees[c].startedAt \in 1..(MaxValues - 1)
    /\ \E c \in Consumers : lg.tees[c].startedAt = MaxValues

C37FullStopCancelsOwnStream ==
    \A stop \in gen.fullStops : stop[2] = gen.gets[stop[1]].generator

\* ------------------------------------------------ rejection of completions
\* C39: every displayed completion that is neither accepted nor followed,
\* within 500 ms, by a completion of the same intention is logged as rejected
\* in the end, exactly once, when its timer of 10 s fires: until then its
\* timer is set, and from then on it is logged once, as rejected.
C39RejectedWhenTimerFires ==
    \A completionId \in CompletionIds :
        (/\ als.displayed[completionId] = 1
         /\ completionId \notin als.accepts
         /\ ~als.followed[completionId])
        => \/ /\ als.logRejectionTimeouts[completionId] # NoTimeoutSet
              /\ TimesLogged(completionId) = 0
           \/ /\ als.logRejectionTimeouts[completionId] = NoTimeoutSet
              /\ TimesLogged(completionId) = 1
              /\ LoggedAs(completionId, FALSE)

\* ---------------------------------------------------------------- messenger
\* C40: however the data is cut into chunks, also inside a message or next to
\* a \r\n, the line handler is given exactly the messages that were sent, each
\* once and in their order; an unfinished last line is held and completed by
\* the data that follows.
C40FramingIgnoresChunks ==
    /\ \E n \in 0..Len(im.sent) : im.handled = SubSeq(im.sent, 1, n)
    /\ (im.pc = "receiving" /\ im.chunks = <<>>) =>
          im.handled = im.sent /\ im.unfinishedLine = <<>>


\* ------------------------------------------------------------------- C34
\* The places of the terminal updates in the stream of a refreshFiles call.
TerminalPlaces ==
    {k \in 1..Len(pg.updates) : pg.updates[k].status \in TerminalStatuses}

\* C34: the progress stream of refreshFiles, the one for an empty file list
\* included, holds at most one terminal update (done, failed or cancelled),
\* which is its last element; a run that did not fail ends with done at
\* progress 1.
C34OneTerminalUpdateLast ==
    /\ Cardinality(TerminalPlaces) <= 1
    /\ pg.pc = "finished" /\ ~pg.thrown =>
          /\ TerminalPlaces = {Len(pg.updates)}
          /\ pg.updates[Len(pg.updates)].status # "failed" =>
                pg.updates[Len(pg.updates)] = ProgressUpdate("done", One)


\* ------------------------------------------------------------------- C35
\* The paths markComplete(lastUpdated, UpdateLastUpdated) is about to rewrite.
TouchedPaths == {results.lastUpdated[k].path : k \in 1..Len(results.lastUpdated)}

\* C35: whenever markComplete(lastUpdated, UpdateLastUpdated) is applied for a
\* path, the tag catalog holds exactly one row of (tag, path), the stale
\* versions having been removed by the update before it, so the UPDATE never
\* breaks the unique index; also in a run that follows a cancelled one.
C35TouchFindsOneRow ==
    (op = "dirs" /\ pc = "touch") =>
        \A p \in TouchedPaths :
            /\ Cardinality(RowsOfPath(tag_catalog, CurTag, p)) = 1
            /\ ~UpdateViolatesUnique(tag_catalog, CurTag, Item(p, calculateHash(files[p].content)))

\* A run after an aborted one is about to touch a path whose stale version
\* it has just removed.
C35TouchAfterStaleRemoved ==
    /\ op = "dirs" /\ pc = "touch"
    /\ aborts > 0
    /\ \E k \in 1..Len(results.lastUpdated), j \in 1..Len(results.del) :
          results.del[j].path = results.lastUpdated[k].path


\* ------------------------------------------------------------------- C36
\* C36: a file modified while a refresh was planning or indexing it is
\* examined again by the next refresh that runs over the workspace at rest:
\* when that refresh is done the catalog rows of the file carry the hash of
\* its current contents, under every artifact's tag.
C36ModificationNotLost ==
    (DirsRunDone /\ cw.quiet) =>
        \A p \in cw.during, a \in ArtifactIds :
            Exists(files[p]) =>
                /\ RowsOfPath(tag_catalog, IndexTag(branch, a), p) # {}
                /\ \A r \in RowsOfPath(tag_catalog, IndexTag(branch, a), p) :
                      r.cacheKey = calculateHash(files[p].content)

=============================================================================
